---------------------------- MODULE Spec2Model ----------------------------
(***************************************************************************)
(* A model of the schema symbol engine of vscode-proto3: the structural    *)
(* parser (parseMessage / parseEnum), the hover type resolver              *)
(* (getMessageOrEnumInfo), the definition resolver                         *)
(* (findEnumOrMessageDefinition / findNestedDefinition), the scans for the *)
(* block a line lies in (getContainingMessage / getContainingEnum) and the *)
(* configuration (proto path options, the variables of setting values).    *)
(*                                                                         *)
(* Text is a sequence of one-character strings.  Positions are the 0-based *)
(* positions of the TypeScript source: At(s, i) is s[i] of the source.     *)
(* The regular expressions of the source are written out as matchers over  *)
(* these sequences, alternative by alternative, in the order the regex     *)
(* engine tries them.  No text drawn holds a block comment before a        *)
(* declaration or on a line with a brace, so the block-comment alternative *)
(* of the leading-comment group and the block-comment removal of           *)
(* findBlockEnd are not written out.                                       *)
(*                                                                         *)
(* The hover provider comes in two copies, src/unnamed/part_000 and the    *)
(* older src/src/proto3Hover.ts; the model follows part_000 and carries    *)
(* the older copy where it differs, under names ending in Ts.              *)
(*                                                                         *)
(* The specifications share the variables:                                 *)
(*   Spec            parseMessage on a generated document                  *)
(*   EnumSpec        parseEnum, in both copies, on a generated enum        *)
(*   CommentSpec     both parsers on runs of comment lines and blocks      *)
(*   FieldSpec       the field-name test of the hover on one field line    *)
(*   HoverSpec       the hover lookups over a world of files, some of      *)
(*                   which cannot be read                                  *)
(*   DefinitionSpec  the definition lookup over such a world               *)
(*   FacadeSpec      provideHover and provideDefinition from the cursor    *)
(*                   on, through their lookups                             *)
(*   CandidateSpec   the same calls over worlds whose candidate list has   *)
(*                   a file more than once                                 *)
(*   OptionsSpec     getAllProtoPathsForImport on lists of protoc options  *)
(*   ResolveSpec     ConfigurationResolver.resolve, one call of            *)
(*                   resolveString to a step, on settings that refer to    *)
(*                   one another                                           *)
(*   ScanSpec        getContainingMessage, one line to a step,             *)
(*                   getContainingEnum and the field-name hover on         *)
(*                   documents put together from a few kinds of line       *)
(***************************************************************************)
EXTENDS Integers, Sequences, FiniteSets, TLC

-----------------------------------------------------------------------------
(* Characters                                                              *)

Digits == {"0","1","2","3","4","5","6","7","8","9"}

Letters ==
    {"a","b","c","d","e","f","g","h","i","j","k","l","m","n","o","p","q","r",
     "s","t","u","v","w","x","y","z",
     "A","B","C","D","E","F","G","H","I","J","K","L","M","N","O","P","Q","R",
     "S","T","U","V","W","X","Y","Z"}

\* \w of the source's regular expressions
IsWordChar(c) == c \in Letters \cup Digits \cup {"_"}

\* \s of the source's regular expressions, and what String.trim removes
IsSpace(c) == c \in {" ", "\t", "\n", "\r"}

IsDigit(c) == c \in Digits

\* the value JavaScript gives a missing capture group or an unset optional
\* member; no string the parser records is empty, so the empty sequence is free
undefined == <<>>

\* s[i] of the source (0-based); a position past the end reads as no character
At(s, i) == IF i >= 0 /\ i < Len(s) THEN s[i + 1] ELSE "EOF"

\* s.substring(a, b)
Substring(s, a, b) == SubSeq(s, a + 1, b)

\* whether p occurs in s at position i
StartsWithAt(s, i, p) ==
    /\ i >= 0
    /\ i + Len(p) <= Len(s)
    /\ SubSeq(s, i + 1, i + Len(p)) = p

\* the least of a set of positions, or -1 when there is none: what a
\* left-to-right scan for a position finds
First(S) == IF S = {} THEN -1 ELSE CHOOSE k \in S : \A j \in S : k <= j

RECURSIVE SkipSpaces(_, _)
\* the position after a greedy \s* begun at i
SkipSpaces(s, i) == IF IsSpace(At(s, i)) THEN SkipSpaces(s, i + 1) ELSE i

RECURSIVE SkipWord(_, _)
\* the position after a greedy \w* begun at i
SkipWord(s, i) == IF IsWordChar(At(s, i)) THEN SkipWord(s, i + 1) ELSE i

RECURSIVE SkipDigits(_, _)
\* the position after a greedy \d* begun at i
SkipDigits(s, i) == IF IsDigit(At(s, i)) THEN SkipDigits(s, i + 1) ELSE i

\* s.indexOf(c, i), -1 when absent
IndexOfChar(s, c, i) == First({k \in i..(Len(s) - 1) : At(s, k) = c})

RECURSIVE TrimEnd(_)
TrimEnd(s) ==
    IF Len(s) > 0 /\ IsSpace(s[Len(s)]) THEN TrimEnd(SubSeq(s, 1, Len(s) - 1))
    ELSE s

\* String.trim
Trim(s) == TrimEnd(Substring(s, SkipSpaces(s, 0), Len(s)))

RECURSIVE Split(_, _)
\* s.split(sep) for a one-character separator
Split(s, sep) ==
    LET k == IndexOfChar(s, sep, 0)
    IN  IF k = -1 THEN <<s>>
        ELSE <<Substring(s, 0, k)>> \o Split(Substring(s, k + 1, Len(s)), sep)

RECURSIVE Join(_, _)
\* parts.join(sep)
Join(parts, sep) ==
    IF Len(parts) = 0 THEN <<>>
    ELSE IF Len(parts) = 1 THEN parts[1]
    ELSE parts[1] \o sep \o Join(Tail(parts), sep)

\* (s.match(/c/g) || []).length
CountChar(s, c) == Cardinality({k \in 1..Len(s) : s[k] = c})

DigitValue(c) ==
    CASE c = "0" -> 0 [] c = "1" -> 1 [] c = "2" -> 2 [] c = "3" -> 3
      [] c = "4" -> 4 [] c = "5" -> 5 [] c = "6" -> 6 [] c = "7" -> 7
      [] c = "8" -> 8 [] c = "9" -> 9

RECURSIVE parseInt(_)
\* parseInt of a string of decimal digits
parseInt(s) ==
    IF Len(s) = 0 THEN 0
    ELSE parseInt(SubSeq(s, 1, Len(s) - 1)) * 10 + DigitValue(s[Len(s)])

-----------------------------------------------------------------------------
(* Keywords and punctuation of the schema language                         *)

kwMessage == <<"m","e","s","s","a","g","e">>
kwEnum == <<"e","n","u","m">>
kwService == <<"s","e","r","v","i","c","e">>
kwPackage == <<"p","a","c","k","a","g","e">>
kwOptional == <<"o","p","t","i","o","n","a","l">>
kwRequired == <<"r","e","q","u","i","r","e","d">>
kwRepeated == <<"r","e","p","e","a","t","e","d">>
kwMap == <<"m","a","p">>
Slashes == <<"/","/">>
NL == <<"\n">>

-----------------------------------------------------------------------------
(* Matching one piece of a regular expression at a position.  Each takes   *)
(* the position its piece begins at and gives the position after it, or -1 *)
(* when the piece does not match there; a piece begun at -1 gives -1, so   *)
(* a sequence of pieces is written as a nest of them.                      *)

\* \s*
Sp0(s, i) == IF i < 0 THEN -1 ELSE SkipSpaces(s, i)

\* \s+
Sp1(s, i) == IF i >= 0 /\ IsSpace(At(s, i)) THEN SkipSpaces(s, i) ELSE -1

\* \w+
Wd1(s, i) == IF i >= 0 /\ IsWordChar(At(s, i)) THEN SkipWord(s, i) ELSE -1

\* \d+
Dg1(s, i) == IF i >= 0 /\ IsDigit(At(s, i)) THEN SkipDigits(s, i) ELSE -1

\* the literal p
Lit(s, i, p) == IF StartsWithAt(s, i, p) THEN i + Len(p) ELSE -1

NoMatch == [ok |-> FALSE]

-----------------------------------------------------------------------------
(* The field-line grammar of parseMessage                                  *)
\*   ^\s*(optional|required|repeated)?\s*
\*    (?:(map)\s*<\s*([^<>]+)\s*,\s*([^<>]+)\s*>|(\w+(?:\.\w+)*))
\*    \s+(\w+)\s*=\s*(\d+)(?:\s*\[([\s\w=,]+)\])?\s*;(?:\s*\/\/\s*(.*))?$
\* The positions below are those of the tail of the grammar,
\*    \s+(\w+)\s*=\s*(\d+)(?:\s*\[([\s\w=,]+)\])?\s*;(?:\s*\/\/\s*(.*))?$
\* begun at j, the position after the type.

\* the position after a greedy [\s\w=,]+ begun at i
OptionChars1(s, i) ==
    IF i >= 0 /\ (IsSpace(At(s, i)) \/ IsWordChar(At(s, i)) \/ At(s, i) \in {"=", ","})
    THEN First({k \in i..Len(s) : ~(IsSpace(At(s, k)) \/ IsWordChar(At(s, k))
                                     \/ At(s, k) \in {"=", ","})})
    ELSE -1

\* the position after a greedy [^<>]* begun at i
SkipNotAngle(s, i) ==
    IF i >= Len(s) THEN i
    ELSE First({k \in i..Len(s) : At(s, k) \in {"<", ">", "EOF"}})

RECURSIVE DottedEnd(_, _)
\* the position after (?:\.\w+)* begun at i
DottedEnd(s, i) ==
    IF At(s, i) = "." /\ SkipWord(s, i + 1) > i + 1
    THEN DottedEnd(s, SkipWord(s, i + 1))
    ELSE i

NameStart(line, j) == Sp1(line, j)
NameEnd(line, j) == Wd1(line, NameStart(line, j))
NumberStart(line, j) == Sp0(line, Lit(line, Sp0(line, NameEnd(line, j)), <<"=">>))
NumberEnd(line, j) == Dg1(line, NumberStart(line, j))

\* (?:\s*\[([\s\w=,]+)\])? begun at d: the options and the position after
OptionsStart(line, d) == Lit(line, Sp0(line, d), <<"[">>)
OptionsEnd(line, d) == OptionChars1(line, OptionsStart(line, d))
HasOptions(line, d) == Lit(line, OptionsEnd(line, d), <<"]">>) # -1
AfterOptions(line, d) == IF HasOptions(line, d) THEN OptionsEnd(line, d) + 1 ELSE d

\* \s*; : the position after the semicolon
Semicolon(line, j) ==
    Lit(line, Sp0(line, AfterOptions(line, NumberEnd(line, j))), <<";">>)

\* (?:\s*\/\/\s*(.*))? : where the text of the inline comment begins
CommentStart(line, j) == Sp0(line, Lit(line, Sp0(line, Semicolon(line, j)), Slashes))

\* whether the tail matches to the end of the line
TailMatches(line, j) ==
    /\ Semicolon(line, j) # -1
    /\ (CommentStart(line, j) # -1 \/ Semicolon(line, j) = Len(line))

\* the groups the tail captures
TailGroups(line, j) ==
    [name |-> Substring(line, NameStart(line, j), NameEnd(line, j)),
     number |-> Substring(line, NumberStart(line, j), NumberEnd(line, j)),
     options |-> IF HasOptions(line, NumberEnd(line, j))
                 THEN Substring(line, OptionsStart(line, NumberEnd(line, j)),
                                OptionsEnd(line, NumberEnd(line, j)))
                 ELSE undefined,
     inlineComment |-> IF CommentStart(line, j) # -1
                       THEN Substring(line, CommentStart(line, j), Len(line))
                       ELSE undefined]

LabelKeywords == <<kwOptional, kwRequired, kwRepeated>>

\* ^\s*(optional|required|repeated)?\s* with label l (0: none): where the
\* type begins
TypeStart(line, l) ==
    Sp0(line, IF l = 0 THEN Sp0(line, 0)
              ELSE Lit(line, Sp0(line, 0), LabelKeywords[l]))

\* (\w+(?:\.\w+)*) begun at k: where the type ends
TypeEnd(line, k) == IF Wd1(line, k) = -1 THEN -1 ELSE DottedEnd(line, Wd1(line, k))

\* (map)\s*<\s* begun at k: the position after it
MapOpen(line, k) == Sp0(line, Lit(line, Sp0(line, Lit(line, k, kwMap)), <<"<">>))

\* where the key ([^<>]+) begins: after the white space, or on its last
\* character when nothing else could be the key
MapKeyStart(line, k) ==
    IF MapOpen(line, k) = -1 THEN -1
    ELSE IF At(line, MapOpen(line, k)) \notin {"<", ">", "EOF"} THEN MapOpen(line, k)
    ELSE IF IsSpace(At(line, MapOpen(line, k) - 1)) THEN MapOpen(line, k) - 1
    ELSE -1

\* \s*([^<>]+) after the comma c, up to limit: where the value begins
MapValueStart(line, c, limit) ==
    IF SkipSpaces(line, c + 1) < limit THEN SkipSpaces(line, c + 1)
    ELSE IF SkipSpaces(line, c + 1) - 1 > c THEN SkipSpaces(line, c + 1) - 1
    ELSE -1

RECURSIVE MapComma(_, _, _, _)
\* the comma the key ends at: the commas before limit (the first angle
\* bracket after the key) are tried from the last one back, as the greedy
\* key gives characters back, until the rest of the line matches
MapComma(line, keyStart, limit, c) ==
    IF c <= keyStart THEN -1
    ELSE IF /\ At(line, c) = ","
            /\ MapValueStart(line, c, limit) # -1
            /\ At(line, limit) = ">"
            /\ TailMatches(line, limit + 1)
    THEN c
    ELSE MapComma(line, keyStart, limit, c - 1)

\* the comma of the map alternative whose key begins at keyStart, or -1
MapCommaFrom(line, keyStart) ==
    IF keyStart = -1 THEN -1
    ELSE MapComma(line, keyStart, SkipNotAngle(line, keyStart),
                  SkipNotAngle(line, keyStart) - 1)

\* the alternatives of the grammar in the order the engine tries them:
\* each label with the map type, then with a plain type, then no label
Attempts == <<[l |-> 1, map |-> TRUE], [l |-> 1, map |-> FALSE],
              [l |-> 2, map |-> TRUE], [l |-> 2, map |-> FALSE],
              [l |-> 3, map |-> TRUE], [l |-> 3, map |-> FALSE],
              [l |-> 0, map |-> TRUE], [l |-> 0, map |-> FALSE]>>

AttemptMatches(line, a) ==
    IF a.map
    THEN MapCommaFrom(line, MapKeyStart(line, TypeStart(line, a.l))) # -1
    ELSE /\ TypeEnd(line, TypeStart(line, a.l)) # -1
         /\ TailMatches(line, TypeEnd(line, TypeStart(line, a.l)))

\* the groups of a matching map alternative: key from keyStart to the comma
\* c, value up to limit
MapGroups(line, l, keyStart, c, limit) ==
    [ok |-> TRUE,
     label |-> IF l = 0 THEN undefined ELSE LabelKeywords[l],
     mapKeyword |-> kwMap,
     mapKey |-> Substring(line, keyStart, c),
     mapValue |-> Substring(line, MapValueStart(line, c, limit), limit),
     regularType |-> undefined,
     tail |-> TailGroups(line, limit + 1)]

\* the groups of a matching plain-type alternative, the type at k..t
TypeGroups(line, l, k, t) ==
    [ok |-> TRUE,
     label |-> IF l = 0 THEN undefined ELSE LabelKeywords[l],
     mapKeyword |-> undefined, mapKey |-> undefined, mapValue |-> undefined,
     regularType |-> Substring(line, k, t),
     tail |-> TailGroups(line, t)]

MapGroupsAt(line, l, keyStart) ==
    MapGroups(line, l, keyStart, MapCommaFrom(line, keyStart),
              SkipNotAngle(line, keyStart))

TypeGroupsAt(line, l, k) == TypeGroups(line, l, k, TypeEnd(line, k))

AttemptGroups(line, n) ==
    IF n = -1 THEN NoMatch
    ELSE IF Attempts[n].map
    THEN MapGroupsAt(line, Attempts[n].l,
                     MapKeyStart(line, TypeStart(line, Attempts[n].l)))
    ELSE TypeGroupsAt(line, Attempts[n].l, TypeStart(line, Attempts[n].l))

\* trimmedLine.match(the field-line grammar)
fieldMatch(line) ==
    AttemptGroups(line, First({n \in 1..Len(Attempts) :
                                  AttemptMatches(line, Attempts[n])}))

-----------------------------------------------------------------------------
(* Locating a declaration: the start expressions of parseMessage/parseEnum *)
\*   ((?:\/\/.*\n|\/\*[\s\S]*?\*\/\s*)*)\s*KEYWORD\s+NAME\s*\{

RECURSIVE SkipLineComments(_, _)
\* the position after the greedy group (?:\/\/.*\n)* begun at i
SkipLineComments(s, i) ==
    LET nl == IndexOfChar(s, "\n", i + 2)
    IN  IF StartsWithAt(s, i, Slashes) /\ nl # -1
        THEN SkipLineComments(s, nl + 1)
        ELSE i

\* i when an opening brace is at i, else -1
Brace(s, i) == IF At(s, i) = "{" THEN i ELSE -1

\* the start expression matched at p: the position of its closing "{", or -1
OpenerAt(s, p, keyword, name) ==
    Brace(s, Sp0(s, Lit(s, Sp1(s, Lit(s, Sp0(s, SkipLineComments(s, p)), keyword)),
                        name)))

\* RegExp.exec: the leftmost position at or after p where the start
\* expression matches, -1 when it matches nowhere
FindOpener(s, p, keyword, name) ==
    First({k \in p..(Len(s) - 1) : OpenerAt(s, k, keyword, name) # -1})

\* one comment of the leading comment group with its marker removed
CommentText(c) == Trim(Substring(c, Len(Slashes), Len(c)))

\* the non-empty lines of the leading comment group, markers removed, joined
JoinComments(commentMatch) ==
    IF Len(commentMatch) = 0 THEN undefined
    ELSE Join([k \in 1..Len(commentMatch) |-> CommentText(commentMatch[k])], NL)

\* the comment of a declaration from the text captured by group 1
LeadingComment(commentPart) ==
    JoinComments(SelectSeq(Split(commentPart, "\n"), LAMBDA l : Len(l) > 0))

RECURSIVE MatchingBrace(_, _, _)
\* the scan for the closing brace of parseMessage: from i with braceCount
\* open; the characters that are no brace change nothing and are passed over
MatchingBrace(content, i, braceCount) ==
    LET k == First({j \in i..(Len(content) - 1) : At(content, j) \in {"{", "}"}})
    IN  IF k = -1 THEN -1
        ELSE IF At(content, k) = "{"
        THEN MatchingBrace(content, k + 1, braceCount + 1)
        ELSE IF braceCount - 1 = 0 THEN k
        ELSE MatchingBrace(content, k + 1, braceCount - 1)

\* ^KEYWORD\s+(\w+)\s*\{ on a trimmed line: where the captured name is
NestedNameStart(trimmedLine, keyword) == Sp1(trimmedLine, Lit(trimmedLine, 0, keyword))
NestedNameEnd(trimmedLine, keyword) ==
    Wd1(trimmedLine, NestedNameStart(trimmedLine, keyword))

\* ^KEYWORD\s+(\w+)\s*\{ on a trimmed line: the captured name, or undefined
NestedOpenerName(trimmedLine, keyword) ==
    IF Brace(trimmedLine, Sp0(trimmedLine, NestedNameEnd(trimmedLine, keyword))) # -1
    THEN Substring(trimmedLine, NestedNameStart(trimmedLine, keyword),
                   NestedNameEnd(trimmedLine, keyword))
    ELSE undefined

\* the comment a field or value gets from all its comments: joined by
\* newlines, undefined when there is none
JoinAll(allComments) ==
    IF Len(allComments) > 0 THEN Join(allComments, NL) ELSE undefined

\* the comment a field or value gets: the pending standalone comments, then
\* its inline comment
CombineComments(pendingComments, inlineComment) ==
    JoinAll(IF inlineComment # undefined
            THEN Append(pendingComments, Trim(inlineComment))
            ELSE pendingComments)

\* a standalone comment line met by a loop: kept when it has text
CommentLine(st, comment) ==
    IF Len(comment) > 0
    THEN [st EXCEPT !.pendingComments = Append(@, comment)]
    ELSE st

-----------------------------------------------------------------------------
(* parseEnum                                                               *)
\* the value-line grammar  ^\s*(\w+)\s*=\s*(\d+)\s*;(?:\s*\/\/\s*(.*))?$

ValueNameStart(line) == Sp0(line, 0)
ValueNameEnd(line) == Wd1(line, ValueNameStart(line))
ValueNumberStart(line) == Sp0(line, Lit(line, Sp0(line, ValueNameEnd(line)), <<"=">>))
ValueNumberEnd(line) == Dg1(line, ValueNumberStart(line))
ValueSemicolon(line) == Lit(line, Sp0(line, ValueNumberEnd(line)), <<";">>)
ValueCommentStart(line) ==
    Sp0(line, Lit(line, Sp0(line, ValueSemicolon(line)), Slashes))

\* trimmedLine.match(the value-line grammar)
valueMatch(line) ==
    IF /\ ValueSemicolon(line) # -1
       /\ (ValueCommentStart(line) # -1 \/ ValueSemicolon(line) = Len(line))
    THEN [ok |-> TRUE,
          name |-> Substring(line, ValueNameStart(line), ValueNameEnd(line)),
          number |-> Substring(line, ValueNumberStart(line), ValueNumberEnd(line)),
          inlineComment |-> IF ValueCommentStart(line) # -1
                            THEN Substring(line, ValueCommentStart(line), Len(line))
                            ELSE undefined]
    ELSE NoMatch

\* the value loop with the pending comments kept over a line that is no
\* value line
EnumValueLineKeeping(st, m) ==
    IF m.ok
    THEN [values |-> Append(st.values,
                        [name |-> m.name,
                         number |-> parseInt(m.number),
                         comment |-> CombineComments(st.pendingComments,
                                                     m.inlineComment)]),
          pendingComments |-> <<>>]
    ELSE st

\* the last branch of the value loop: the line is a value (m matched) or not
EnumValueLine(st, m) ==
    IF m.ok
    THEN [values |-> Append(st.values,
                        [name |-> m.name,
                         number |-> parseInt(m.number),
                         comment |-> CombineComments(st.pendingComments,
                                                     m.inlineComment)]),
          pendingComments |-> <<>>]
    ELSE [st EXCEPT !.pendingComments = <<>>]

\* one pass of the value loop of parseEnum over a trimmed line
EnumLine(st, trimmedLine) ==
    IF StartsWithAt(trimmedLine, 0, Slashes)
    THEN CommentLine(st, Trim(Substring(trimmedLine, 2, Len(trimmedLine))))
    ELSE IF trimmedLine = <<>> \/ trimmedLine = <<"{">> \/ trimmedLine = <<"}">>
    THEN [st EXCEPT !.pendingComments = <<>>]
    ELSE EnumValueLine(st, valueMatch(trimmedLine))

RECURSIVE EnumLines(_, _, _)
\* the value loop of parseEnum from line i (1-based) on
EnumLines(st, lines, i) ==
    IF i > Len(lines) THEN st
    ELSE EnumLines(EnumLine(st, Trim(lines[i])), lines, i + 1)

RECURSIVE EnumBodyEnd(_, _)
\* the lazy ([\s\S]*?)\n\s*\} : the first newline at or after i after which
\* only white space precedes a "}", or -1
EnumBodyEnd(s, i) ==
    LET nl == IndexOfChar(s, "\n", i)
    IN  IF nl = -1 THEN -1
        ELSE IF At(s, SkipSpaces(s, nl + 1)) = "}" THEN nl
        ELSE EnumBodyEnd(s, nl + 1)

\* the whole enum expression matched at k: the newline its body ends at, or -1
EnumAt(s, k, enumName) ==
    IF OpenerAt(s, k, kwEnum, enumName) = -1 THEN -1
    ELSE EnumBodyEnd(s, OpenerAt(s, k, kwEnum, enumName) + 1)

\* enumRegex.exec(content): the leftmost position at or after p where the
\* whole expression (opener, body, closing line) matches, or -1
FindEnum(s, p, enumName) ==
    First({k \in p..(Len(s) - 1) : EnumAt(s, k, enumName) # -1})

\* what parseEnum returns when the enum is not found
EmptyEnum(enumName) ==
    [name |-> enumName, values |-> <<>>, comment |-> undefined, rawSource |-> <<>>]

\* parseEnum once the expression has matched at start, its brace at open
\* and its body ending at the newline bodyEnd
parseEnumMatch(enumName, content, start, open, bodyEnd) ==
    [name |-> enumName,
     values |-> EnumLines([values |-> <<>>, pendingComments |-> <<>>],
                          Split(Substring(content, open + 1, bodyEnd), "\n"), 1).values,
     comment |-> LeadingComment(
                     Substring(content, start, SkipLineComments(content, start))),
     rawSource |-> Substring(content, start, SkipSpaces(content, bodyEnd + 1) + 1)]

parseEnumAt(enumName, content, start) ==
    IF start = -1 THEN EmptyEnum(enumName)
    ELSE parseEnumMatch(enumName, content, start,
                        OpenerAt(content, start, kwEnum, enumName),
                        EnumAt(content, start, enumName))

parseEnum(enumName, content) ==
    parseEnumAt(enumName, content, FindEnum(content, 0, enumName))

-----------------------------------------------------------------------------
(* parseEnum as src/src/proto3Hover.ts has it.  The two copies of the      *)
(* hover provider differ, in parseEnum, in the value-line grammar only:    *)
(* here the semicolon is inside the optional group of the inline comment.  *)

\* trimmedLine.match(/^\s*(\w+)\s*=\s*(\d+)(?:\s*;\s*\/\/\s*(.*))?$/)
valueMatchTs(line) ==
    IF /\ ValueNumberEnd(line) # -1
       /\ (ValueCommentStart(line) # -1 \/ ValueNumberEnd(line) = Len(line))
    THEN [ok |-> TRUE,
          name |-> Substring(line, ValueNameStart(line), ValueNameEnd(line)),
          number |-> Substring(line, ValueNumberStart(line), ValueNumberEnd(line)),
          inlineComment |-> IF ValueCommentStart(line) # -1
                            THEN Substring(line, ValueCommentStart(line), Len(line))
                            ELSE undefined]
    ELSE NoMatch

\* one pass of the value loop over a trimmed line
EnumLineTs(st, trimmedLine) ==
    IF StartsWithAt(trimmedLine, 0, Slashes)
    THEN CommentLine(st, Trim(Substring(trimmedLine, 2, Len(trimmedLine))))
    ELSE IF trimmedLine = <<>> \/ trimmedLine = <<"{">> \/ trimmedLine = <<"}">>
    THEN [st EXCEPT !.pendingComments = <<>>]
    ELSE EnumValueLine(st, valueMatchTs(trimmedLine))

RECURSIVE EnumLinesTs(_, _, _)
\* the value loop from line i (1-based) on
EnumLinesTs(st, lines, i) ==
    IF i > Len(lines) THEN st
    ELSE EnumLinesTs(EnumLineTs(st, Trim(lines[i])), lines, i + 1)

\* the values of the enum matched at start, its brace at open and its body
\* ending at the newline bodyEnd
EnumValuesTs(content, open, bodyEnd) ==
    EnumLinesTs([values |-> <<>>, pendingComments |-> <<>>],
                Split(Substring(content, open + 1, bodyEnd), "\n"), 1).values

parseEnumAtTs(enumName, content, start) ==
    IF start = -1 THEN EmptyEnum(enumName)
    ELSE [parseEnumAt(enumName, content, start) EXCEPT
             !.values = EnumValuesTs(content, OpenerAt(content, start, kwEnum, enumName),
                                     EnumAt(content, start, enumName))]

parseEnumTs(enumName, content) ==
    parseEnumAtTs(enumName, content, FindEnum(content, 0, enumName))

-----------------------------------------------------------------------------
(* parseMessage                                                            *)

RECURSIVE parseMessage(_, _)

\* the type recorded for a field: map<K, V> rebuilt from its parts, or the
\* plain type
fieldType(m) ==
    IF m.mapKeyword # undefined /\ m.mapKey # undefined /\ m.mapValue # undefined
    THEN kwMap \o <<"<">> \o m.mapKey \o <<",", " ">> \o m.mapValue \o <<">">>
    ELSE m.regularType

\* the last branch of the field loop: the line is a field (m matched) or not
MessageFieldLine(st, m) ==
    IF m.ok
    THEN [st EXCEPT !.fields =
                        Append(@, [name |-> m.tail.name,
                                   type |-> fieldType(m),
                                   number |-> parseInt(m.tail.number),
                                   label |-> m.label,
                                   comment |-> CombineComments(st.pendingComments,
                                                               m.tail.inlineComment)]),
                    !.pendingComments = <<>>]
    ELSE [st EXCEPT !.pendingComments = <<>>]

\* the branches of the field loop for a line at depth 0 that is no comment,
\* blank or brace: a nested message, a nested enum, or a field
MessageDeclLine(st, trimmedLine, bodyContent, nestedMessageName, nestedEnumName) ==
    IF nestedMessageName # undefined
    THEN [st EXCEPT !.nestedMessages =
                        Append(@, parseMessage(nestedMessageName, bodyContent)),
                    !.pendingComments = <<>>]
    ELSE IF nestedEnumName # undefined
    THEN [st EXCEPT !.nestedEnums =
                        Append(@, parseEnum(nestedEnumName, bodyContent)),
                    !.pendingComments = <<>>]
    ELSE MessageFieldLine(st, fieldMatch(trimmedLine))

\* one pass of the field loop of parseMessage over a trimmed line, before
\* the brace depth is updated
MessageLineTrimmed(st, trimmedLine, bodyContent) ==
    IF StartsWithAt(trimmedLine, 0, Slashes) /\ st.braceDepth = 0
    THEN CommentLine(st, Trim(Substring(trimmedLine, 2, Len(trimmedLine))))
    ELSE IF trimmedLine = <<>> \/ trimmedLine = <<"{">> \/ trimmedLine = <<"}">>
    THEN IF st.braceDepth = 0
         THEN [st EXCEPT !.pendingComments = <<>>]
         ELSE st
    ELSE IF st.braceDepth # 0 THEN st
    ELSE MessageDeclLine(st, trimmedLine, bodyContent,
                         NestedOpenerName(trimmedLine, kwMessage),
                         NestedOpenerName(trimmedLine, kwEnum))

\* one pass of the field loop of parseMessage over a line of the body
MessageLine(st, line, bodyContent) ==
    [MessageLineTrimmed(st, Trim(line), bodyContent)
        EXCEPT !.braceDepth = @ + CountChar(line, "{") - CountChar(line, "}")]

RECURSIVE MessageLinesStopping(_, _, _, _)
\* a variant of the field loop that gives up at the first line at depth 0
\* that has text and is no comment, brace, opener or field, where the
\* source goes on to the next line
MessageLinesStopping(st, lines, i, bodyContent) ==
    IF i > Len(lines) THEN st
    ELSE IF /\ st.braceDepth = 0
            /\ Trim(lines[i]) \notin {<<>>, <<"{">>, <<"}">>}
            /\ ~StartsWithAt(Trim(lines[i]), 0, Slashes)
            /\ NestedOpenerName(Trim(lines[i]), kwMessage) = undefined
            /\ NestedOpenerName(Trim(lines[i]), kwEnum) = undefined
            /\ ~fieldMatch(Trim(lines[i])).ok
    THEN st
    ELSE MessageLinesStopping(MessageLine(st, lines[i], bodyContent), lines, i + 1,
                              bodyContent)

RECURSIVE MessageLines(_, _, _, _)
\* the field loop of parseMessage from line i (1-based) on
MessageLines(st, lines, i, bodyContent) ==
    IF i > Len(lines) THEN st
    ELSE MessageLines(MessageLine(st, lines[i], bodyContent), lines, i + 1, bodyContent)

\* what parseMessage returns when the message is not found or not closed
EmptyMessage(messageName) ==
    [name |-> messageName, fields |-> <<>>, nestedMessages |-> <<>>,
     nestedEnums |-> <<>>, comment |-> undefined, rawSource |-> <<>>]

\* a variant of the result whose rawSource stops before the closing brace
parseMessageResultOpen(messageName, content, startIndex, endIndex, done) ==
    [name |-> messageName,
     fields |-> done.fields,
     nestedMessages |-> done.nestedMessages,
     nestedEnums |-> done.nestedEnums,
     comment |-> LeadingComment(
                     Substring(content, startIndex,
                               SkipLineComments(content, startIndex))),
     rawSource |-> Substring(content, startIndex, endIndex)]

\* the result of parseMessage from what the field loop collected
parseMessageResult(messageName, content, startIndex, endIndex, done) ==
    [name |-> messageName,
     fields |-> done.fields,
     nestedMessages |-> done.nestedMessages,
     nestedEnums |-> done.nestedEnums,
     comment |-> LeadingComment(
                     Substring(content, startIndex,
                               SkipLineComments(content, startIndex))),
     rawSource |-> Substring(content, startIndex, endIndex + 1)]

\* the field loop of parseMessage over the whole body
parseMessageBody(bodyContent) ==
    MessageLines([fields |-> <<>>, nestedMessages |-> <<>>, nestedEnums |-> <<>>,
                  pendingComments |-> <<>>, braceDepth |-> 0],
                 Split(bodyContent, "\n"), 1, bodyContent)

\* a variant that takes a message whose brace is never closed to run to the
\* end of the text
parseMessageBracesToEnd(messageName, content, startIndex, openBraceIndex, endIndex) ==
    IF endIndex = -1
    THEN parseMessageResult(messageName, content, startIndex, Len(content) - 1,
             parseMessageBody(Substring(content, openBraceIndex + 1, Len(content))))
    ELSE parseMessageResult(messageName, content, startIndex, endIndex,
             parseMessageBody(Substring(content, openBraceIndex + 1, endIndex)))

\* parseMessage once the braces are located
parseMessageBraces(messageName, content, startIndex, openBraceIndex, endIndex) ==
    IF endIndex = -1 THEN EmptyMessage(messageName)
    ELSE parseMessageResult(messageName, content, startIndex, endIndex,
             parseMessageBody(Substring(content, openBraceIndex + 1, endIndex)))

\* parseMessage once the start expression has matched with its brace at
\* openBraceIndex
parseMessageOpen(messageName, content, startIndex, openBraceIndex) ==
    parseMessageBraces(messageName, content, startIndex, openBraceIndex,
                       MatchingBrace(content, openBraceIndex, 0))

\* parseMessage once the start expression has been searched for
parseMessageAt(messageName, content, startIndex) ==
    IF startIndex = -1 THEN EmptyMessage(messageName)
    ELSE parseMessageOpen(messageName, content, startIndex,
                          OpenerAt(content, startIndex, kwMessage, messageName))

parseMessage(messageName, content) ==
    parseMessageAt(messageName, content,
                   FindOpener(content, 0, kwMessage, messageName))

-----------------------------------------------------------------------------
(* The documents the parser is run on.  A document is written out from a   *)
(* description of what it declares: the items of the body of message Foo,  *)
(* what precedes the message, and the layout.  What a parse should yield   *)
(* is read off the description, never off the text.                        *)

nmFoo == <<"F","o","o">>
nmInner == <<"I","n","n","e","r">>
nmA == <<"A">>
nmE == <<"E">>
nmBar == <<"B","a","r">>
nmP == <<"P">>
tyInt32 == <<"i","n","t","3","2">>
tyString == <<"s","t","r","i","n","g">>
tyRepeatedBar == <<"r","e","p","e","a","t","e","d","B","a","r">>
txNote == <<"n","o","t","e">>
txLead == <<"l","e","a","d">>
txDoc == <<"d","o","c">>
nmRED == <<"R","E","D">>
nmBLUE == <<"B","L","U","E">>
nmUNKNOWN == <<"U","N","K","N","O","W","N">>
txOption == <<"o","p","t","i","o","n"," ","a","l","l","o","w","_","a","l","i","a","s"," ","="," ","t","r","u","e",";">>
txAbc == <<"a","b","c">>

\* how many items the body of message Foo holds at most
MaxItems == 2

FieldItem(label, type, name, tag, number, note) ==
    [kind |-> "field", label |-> label, type |-> type, name |-> name,
     tag |-> tag, number |-> number, note |-> note, body |-> <<>>,
     oneLine |-> FALSE]

BlockItem(kind, name, body, oneLine) ==
    [kind |-> kind, label |-> undefined, type |-> undefined, name |-> name,
     tag |-> undefined, number |-> 0, note |-> undefined, body |-> body,
     oneLine |-> oneLine]

ItemNames ==
    {"field", "noted", "badtag", "comment", "blank", "nested", "nested1",
     "deep", "glued", "bracenote", "closenote", "bracecomment", "enum"}

\* the items by name
ItemOf(n) ==
    CASE n = "field" -> FieldItem(undefined, tyInt32, <<"x">>, <<"1">>, 1, undefined)
      [] n = "noted" -> FieldItem(kwRepeated, nmBar, <<"y">>, <<"2">>, 2, txNote)
      [] n = "badtag" -> FieldItem(undefined, tyString, <<"z">>, txAbc, 0, undefined)
      [] n = "glued" -> FieldItem(undefined, tyRepeatedBar, <<"w">>, <<"4">>, 4, undefined)
      [] n = "bracenote" -> FieldItem(undefined, tyInt32, <<"u">>, <<"5">>, 5, <<"{">>)
      [] n = "closenote" -> FieldItem(undefined, tyInt32, <<"t">>, <<"7">>, 7, <<"}">>)
      [] n = "bracecomment" -> BlockItem("comment", <<"}">>, <<>>, FALSE)
      [] n = "inner" -> FieldItem(undefined, tyInt32, <<"v">>, <<"3">>, 3, undefined)
      [] n = "innermost" -> FieldItem(undefined, tyInt32, <<"d">>, <<"6">>, 6, undefined)
      [] n = "value" -> FieldItem(undefined, undefined, nmP, <<"0">>, 0, undefined)
      [] n = "comment" -> BlockItem("comment", txLead, <<>>, FALSE)
      [] n = "blank" -> BlockItem("blank", undefined, <<>>, FALSE)
      [] n = "nested" -> BlockItem("message", nmInner, <<"inner">>, FALSE)
      [] n = "nested1" -> BlockItem("message", nmInner, <<"inner">>, TRUE)
      [] n = "deepinner" -> BlockItem("message", nmInner, <<"innermost">>, FALSE)
      [] n = "deep" -> BlockItem("message", nmA, <<"deepinner">>, FALSE)
      [] n = "enum" -> BlockItem("enum", nmE, <<"value">>, FALSE)
      [] n = "red" -> FieldItem(undefined, undefined, nmRED, <<"0">>, 0, undefined)
      [] n = "blue" -> FieldItem(undefined, undefined, nmBLUE, <<"1">>, 1, txNote)
      [] n = "unknown" ->
             FieldItem(undefined, undefined, nmUNKNOWN, <<"-", "1">>, 0 - 1, undefined)
      [] n = "option" -> BlockItem("other", txOption, <<>>, FALSE)
      [] n = "second" -> BlockItem("comment", txDoc, <<>>, FALSE)
      [] n = "braces" -> BlockItem("braces", undefined, <<>>, FALSE)
      [] n = "brace" -> BlockItem("other", <<"{">>, <<>>, FALSE)

IsDecimal(tag) == Len(tag) > 0 /\ \A k \in 1..Len(tag) : IsDigit(tag[k])

\* [label] type name = tag; [// note]
FieldLine(f) ==
    (IF f.label # undefined THEN f.label \o <<" ">> ELSE <<>>)
    \o f.type \o <<" ">> \o f.name \o <<" ", "=", " ">> \o f.tag \o <<";">>
    \o (IF f.note # undefined THEN <<" ">> \o Slashes \o <<" ">> \o f.note ELSE <<>>)

\* NAME = number;
ValueLine(f) == f.name \o <<" ", "=", " ">> \o f.tag \o <<";">>

Indent(lines) == [k \in 1..Len(lines) |-> <<" ", " ">> \o lines[k]]

RECURSIVE Concat(_)
Concat(seqs) == IF Len(seqs) = 0 THEN <<>> ELSE seqs[1] \o Concat(Tail(seqs))

RECURSIVE ItemLines(_)
\* the lines an item is written as
ItemLines(n) ==
    LET it == ItemOf(n)
        inner == Concat([k \in 1..Len(it.body) |-> ItemLines(it.body[k])])
        opener == (IF it.kind = "enum" THEN kwEnum ELSE kwMessage)
                  \o <<" ">> \o it.name \o <<" ", "{">>
    IN  CASE it.kind = "field" ->
                 <<IF it.type = undefined THEN ValueLine(it) ELSE FieldLine(it)>>
          [] it.kind = "comment" -> <<Slashes \o <<" ">> \o it.name>>
          [] it.kind = "blank" -> << <<>> >>
          [] it.kind = "other" -> <<it.name>>
          [] it.kind = "braces" -> << <<"{">>, <<"}">> >>
          [] it.oneLine ->
                 <<opener \o <<" ">> \o Join(inner, <<" ">>) \o <<" ", "}">>>>
          [] OTHER -> <<opener>> \o Indent(inner) \o <<<<"}">>>>

BodyLines(items) == Concat([k \in 1..Len(items) |-> ItemLines(items[k])])

PreludeLines(prelude) ==
    CASE prelude = "none" -> <<>>
      [] prelude = "doc" -> <<Slashes \o <<" ">> \o txDoc>>
      [] prelude = "braced" -> <<Slashes \o <<" ", "{">> >>
      [] prelude = "other" ->
             <<kwMessage \o <<" ">> \o nmBar \o <<" ", "{">>,
               <<" ", " ">> \o FieldLine(FieldItem(undefined, tyInt32, <<"b">>, <<"9">>, 9, undefined)),
               <<"}">>, <<>> >>

FooOpener == kwMessage \o <<" ">> \o nmFoo \o <<" ", "{">>

HasComment(line) == \E k \in 0..Len(line) : StartsWithAt(line, k, Slashes)

\* the text of a document.  Layout "block" puts the opener, every line of
\* the body and the closing brace on lines of their own; layout "inline"
\* begins the body on the opener's line and closes it on the last line,
\* or on a line of its own after a line that ends in a comment.
Render(in) ==
    LET body == BodyLines(in.items)
        last == IF Len(body) = 0 THEN <<>> ELSE body[Len(body)]
    IN  IF in.layout = "block"
        THEN Join(PreludeLines(in.prelude) \o <<FooOpener>> \o Indent(body)
                  \o <<<<"}">>>>, NL)
        ELSE Join(PreludeLines(in.prelude), NL)
             \o (IF in.prelude = "none" THEN <<>> ELSE NL)
             \o FooOpener \o <<" ">> \o Join(body, NL \o <<" ">>)
             \o (IF HasComment(last) THEN NL ELSE <<>>) \o <<" ", "}">>

Inputs ==
    {[items |-> it, prelude |-> pre, layout |-> lay] :
        it \in UNION {[1..n -> ItemNames] : n \in 0..MaxItems},
        pre \in {"none", "doc", "other", "braced"},
        lay \in {"block", "inline"}}


-----------------------------------------------------------------------------
(* The definition provider: findEnumOrMessageDefinition and what it calls  *)

\* the value a lookup yields when it finds nothing
NoAnswer == [kind |-> "none"]

\* the position of the first occurrence of t in s, or -1: s.indexOf(t)
IndexOf(s, t) == First({k \in 0..(Len(s) - Len(t)) : StartsWithAt(s, k, t)})

\* the position a greedy \s* ending at k began at: the start of the run of
\* white space before k
RunStart(s, k) == First({p \in 0..k : \A q \in p..(k - 1) : IsSpace(At(s, q))})

\* the position after a greedy [\w.]+ begun at i, or -1
Path1(s, i) ==
    IF i >= 0 /\ (IsWordChar(At(s, i)) \/ At(s, i) = ".")
    THEN First({k \in i..Len(s) : ~(IsWordChar(At(s, k)) \/ At(s, k) = ".")})
    ELSE -1

\* ^\s*package\s+([\w.]+)\s*; on a line: where the package name is
PackageStart(line) == Sp1(line, Lit(line, Sp0(line, 0), kwPackage))
PackageEnd(line) == Path1(line, PackageStart(line))
PackageMatches(line) == Lit(line, Sp0(line, PackageEnd(line)), <<";">>) # -1

\* the package of a file: the name on its first package line, else ''
PackageOnLine(lines, n) ==
    IF n = -1 THEN <<>>
    ELSE Substring(lines[n], PackageStart(lines[n]), PackageEnd(lines[n]))

packageName(lines) ==
    PackageOnLine(lines, First({n \in 1..Len(lines) : PackageMatches(lines[n])}))

\* the parts of a dotted target with the parts of the file's package taken
\* off its front when the target begins with the package and a dot
PartsInFile(target, package) ==
    IF package # <<>> /\ StartsWithAt(target, 0, package \o <<".">>)
    THEN SubSeq(Split(target, "."), Len(Split(package, ".")) + 1,
                Len(Split(target, ".")))
    ELSE Split(target, ".")

\* KEYWORD then white space (gap 1: \s+, gap 0: \s*), the name, \s*{
\* begun at k: the position of the brace, or -1
DefinitionAt(line, k, keyword, gap, name) ==
    Brace(line, Sp0(line, Lit(line, IF gap = 1 THEN Sp1(line, Lit(line, k, keyword))
                                    ELSE Sp0(line, Lit(line, k, keyword)),
                              name)))

\* the position of the brace of the alternative of (message|enum|service)
\* that matches at k, -1 when none does; service only where the expression
\* names it
KeywordsAt(line, k, gap, name, withService) ==
    IF DefinitionAt(line, k, kwMessage, gap, name) # -1
    THEN DefinitionAt(line, k, kwMessage, gap, name)
    ELSE IF DefinitionAt(line, k, kwEnum, gap, name) # -1
    THEN DefinitionAt(line, k, kwEnum, gap, name)
    ELSE IF withService THEN DefinitionAt(line, k, kwService, gap, name)
    ELSE -1

\* where the keyword of the leftmost match of the definition expression is
\* on the line, or -1
DefinitionKeyword(line, gap, name, withService) ==
    First({k \in 0..(Len(line) - 1) : KeywordsAt(line, k, gap, name, withService) # -1})

\* definitionRegexMatch[0], the keyword of the match being at k: the text
\* from the white space before the keyword to the brace
MatchedStr(line, k, gap, name, withService) ==
    Substring(line, RunStart(line, k), KeywordsAt(line, k, gap, name, withService) + 1)

\* getTargetLocationInline: the range of the target on the matched line
getTargetLocationInline(lineIndex, line, target, matchedStr) ==
    [line |-> lineIndex,
     start |-> IndexOf(line, matchedStr) + IndexOf(matchedStr, target),
     end |-> IndexOf(line, matchedStr) + IndexOf(matchedStr, target) + Len(target)]

\* the Location of the target declared on line i of the file (0-based),
\* the keyword of the match being at k
LocationOn(file, lines, i, k, gap, target, withService) ==
    [kind |-> "location", file |-> file,
     range |-> getTargetLocationInline(i, lines[i + 1], target,
                   MatchedStr(lines[i + 1], k, gap, target, withService))]

\* line.replace(/\/\/.*$/, ''): the line without its // comment
CodeLine(line) ==
    IF IndexOf(line, Slashes) = -1 THEN line
    ELSE Substring(line, 0, IndexOf(line, Slashes))

RECURSIVE findBlockEnd(_, _, _)
\* findBlockEnd from line i (0-based) on with braceCount counted so far:
\* the first line at which the count is not positive, else the line count
findBlockEnd(lines, i, braceCount) ==
    IF i >= Len(lines) THEN Len(lines)
    ELSE IF braceCount + CountChar(CodeLine(lines[i + 1]), "{")
                       - CountChar(CodeLine(lines[i + 1]), "}") <= 0
    THEN i
    ELSE findBlockEnd(lines, i + 1,
                      braceCount + CountChar(CodeLine(lines[i + 1]), "{")
                                 - CountChar(CodeLine(lines[i + 1]), "}"))

Min(a, b) == IF a <= b THEN a ELSE b

RECURSIVE findNestedDefinition(_, _, _, _, _)

\* findNestedDefinition at a line i that declares parts[1] with more parts
\* to come: the search inside the block, then on after the block
NestedInBlock(lines, parts, file, i, endLine, blockEnd, innerLocation) ==
    IF innerLocation.kind # "none" THEN innerLocation
    ELSE findNestedDefinition(lines, parts, file, blockEnd + 1, endLine)

\* findNestedDefinition at line i, the keyword of a match being at k or -1
NestedAtLine(lines, parts, file, i, endLine, k) ==
    IF k = -1 THEN findNestedDefinition(lines, parts, file, i + 1, endLine)
    ELSE IF Len(parts) = 1 THEN LocationOn(file, lines, i, k, 1, parts[1], TRUE)
    ELSE NestedInBlock(lines, parts, file, i, endLine, findBlockEnd(lines, i, 0),
             findNestedDefinition(lines, Tail(parts), file, i + 1,
                                  Min(findBlockEnd(lines, i, 0), endLine)))

\* findNestedDefinition(lines, parts, filePath, startLine, endLine), lines
\* counted from 0, endLine already set to the line count where it was -1
findNestedDefinition(lines, parts, file, startLine, endLine) ==
    IF Len(parts) = 0 \/ startLine >= endLine THEN NoAnswer
    ELSE IF StartsWithAt(Trim(lines[startLine + 1]), 0, Slashes)
    THEN findNestedDefinition(lines, parts, file, startLine + 1, endLine)
    ELSE NestedAtLine(lines, parts, file, startLine, endLine,
                      DefinitionKeyword(lines[startLine + 1], 1, parts[1], TRUE))

\* the loop over the lines for an undotted target: the first line the
\* expression \s*(message|enum)\s*TARGET\s*{ matches, or -1
BareLine(lines, target) ==
    First({i \in 0..(Len(lines) - 1) :
              DefinitionKeyword(lines[i + 1], 0, target, FALSE) # -1})

BareLocation(file, lines, target, i) ==
    IF i = -1 THEN NoAnswer
    ELSE LocationOn(file, lines, i,
                    DefinitionKeyword(lines[i + 1], 0, target, FALSE), 0, target, FALSE)

\* one pass of the loop of findEnumOrMessageDefinition over a file that
\* was read: the Location found in it, or none
DefinitionInFile(file, lines, target) ==
    IF IndexOf(target, <<".">>) # -1
    THEN findNestedDefinition(lines, PartsInFile(target, packageName(lines)), file,
                              0, Len(lines))
    ELSE BareLocation(file, lines, target, BareLine(lines, target))

-----------------------------------------------------------------------------
(* The hover provider: getMessageOrEnumInfo, getContainingEnum and the     *)
(* enum value test of provideHover                                         *)

\* content.match(/package\s+([^;]+);/): where the group begins at the
\* keyword at k, -1 when the expression does not match there.  No text
\* drawn has only white space between the keyword and the semicolon.
HoverPackageAt(content, k) ==
    IF /\ ~(At(content, Sp1(content, Lit(content, k, kwPackage))) \in {";", "EOF"})
       /\ IndexOfChar(content, ";", Sp1(content, Lit(content, k, kwPackage))) # -1
    THEN Sp1(content, Lit(content, k, kwPackage))
    ELSE -1

\* the package name of the match whose keyword is at k, '' when k is -1
HoverPackageFrom(content, k) ==
    IF k = -1 THEN <<>>
    ELSE Substring(content, HoverPackageAt(content, k),
                   IndexOfChar(content, ";", HoverPackageAt(content, k)))

\* packageMatch ? packageMatch[1] : ''
HoverPackageName(content) ==
    HoverPackageFrom(content,
        First({k \in 0..(Len(content) - 1) : HoverPackageAt(content, k) # -1}))

\* \bKEYWORD\s+(\w+)\s*{ begun at k: whether it matches, and the name
OpenerMatches(content, k, keyword) ==
    /\ ~IsWordChar(At(content, k - 1))
    /\ Brace(content, Sp0(content, Wd1(content, Sp1(content, Lit(content, k, keyword)))))
           # -1

OpenerName(content, k, keyword) ==
    Substring(content, Sp1(content, Lit(content, k, keyword)),
              Wd1(content, Sp1(content, Lit(content, k, keyword))))

RECURSIVE Ascending(_)
\* the positions of a set in ascending order
Ascending(S) == IF S = {} THEN <<>> ELSE <<First(S)>> \o Ascending(S \ {First(S)})

\* the names of content.match(/\bKEYWORD\s+(\w+)\s*{/g), in order
OpenerNamesAt(content, keyword, positions) ==
    [n \in 1..Len(positions) |-> OpenerName(content, positions[n], keyword)]

OpenerNames(content, keyword) ==
    OpenerNamesAt(content, keyword,
        Ascending({k \in 0..(Len(content) - 1) : OpenerMatches(content, k, keyword)}))

\* targetName relative to the file's package, split at the dots
matchParts(targetName, package) ==
    IF package # <<>> /\ StartsWithAt(targetName, 0, package \o <<".">>)
    THEN Split(Substring(targetName, Len(package) + 1, Len(targetName)), ".")
    ELSE Split(targetName, ".")

fullName(package, name) ==
    IF package # <<>> THEN package \o <<".">> \o name ELSE name

\* the position in a sequence of infos of the first one with the name, or -1
FindNamed(infos, name) == First({k \in 1..Len(infos) : infos[k].name = name})

\* { ...nested, name: `${info.name}.${nested.name}` }
Qualified(info, nested) == [nested EXCEPT !.name = info.name \o <<".">> \o nested.name]

RECURSIVE Traverse(_, _, _)
\* the walk down the nested types for the parts from the i-th (1-based) on
Traverse(info, parts, i) ==
    IF i > Len(parts) THEN [kind |-> "info", info |-> info]
    ELSE IF "nestedMessages" \notin DOMAIN info THEN NoAnswer
    ELSE IF FindNamed(info.nestedMessages, parts[i]) # -1
    THEN Traverse(Qualified(info, info.nestedMessages[
                                      FindNamed(info.nestedMessages, parts[i])]),
                  parts, i + 1)
    ELSE IF FindNamed(info.nestedEnums, parts[i]) # -1
    THEN Traverse(Qualified(info, info.nestedEnums[
                                      FindNamed(info.nestedEnums, parts[i])]),
                  parts, i + 1)
    ELSE NoAnswer

\* what one opener found in a file yields: the info returned, or none and
\* the loop over the openers goes on
MessageAnswer(content, targetName, package, parts, messageName) ==
    IF ~(\/ messageName = parts[1]
         \/ fullName(package, messageName) = targetName
         \/ fullName(package, messageName) = parts[1])
    THEN NoAnswer
    ELSE IF fullName(package, messageName) = targetName
    THEN [kind |-> "info", info |-> parseMessage(messageName, content)]
    ELSE IF Len(parts) > 1 /\ messageName = parts[1]
    THEN Traverse(parseMessage(messageName, content), parts, 2)
    ELSE IF messageName = parts[1] /\ Len(parts) = 1
    THEN [kind |-> "info", info |-> parseMessage(messageName, content)]
    ELSE NoAnswer

EnumAnswer(content, targetName, package, parts, enumName) ==
    IF /\ \/ enumName = parts[1]
          \/ fullName(package, enumName) = targetName
          \/ fullName(package, enumName) = parts[1]
       /\ Len(parts) = 1
    THEN [kind |-> "info", info |-> parseEnum(enumName, content)]
    ELSE NoAnswer

\* the answer of the first opener of the sequence that yields one
FirstAnswer(answers) ==
    IF \E n \in 1..Len(answers) : answers[n].kind # "none"
    THEN answers[First({n \in 1..Len(answers) : answers[n].kind # "none"})]
    ELSE NoAnswer

\* the loops over the message openers, then the enum openers, of a file
InfoFromOpeners(content, targetName, package, parts, messages, enums) ==
    FirstAnswer([n \in 1..Len(messages) |->
                    MessageAnswer(content, targetName, package, parts, messages[n])]
                \o [n \in 1..Len(enums) |->
                      EnumAnswer(content, targetName, package, parts, enums[n])])

InfoInPackage(content, targetName, package) ==
    InfoFromOpeners(content, targetName, package, matchParts(targetName, package),
                    OpenerNames(content, kwMessage), OpenerNames(content, kwEnum))

\* one pass of the loop of getMessageOrEnumInfo over a file that was read:
\* the info found in it, or none
InfoInFile(content, targetName) ==
    InfoInPackage(content, targetName, HoverPackageName(content))

\* trimmedLine.match(/enum\s+(\w+)\s*{/) on a line that starts with
\* "enum ": where the keyword of the leftmost match is, or -1
EnumOpenerAt(trimmedLine) ==
    IF ~StartsWithAt(trimmedLine, 0, kwEnum \o <<" ">>) THEN -1
    ELSE First({k \in 0..(Len(trimmedLine) - 1) :
                   Brace(trimmedLine,
                         Sp0(trimmedLine,
                             Wd1(trimmedLine,
                                 Sp1(trimmedLine, Lit(trimmedLine, k, kwEnum))))) # -1})

\* one pass of the loop of getContainingEnum: cur is [inEnum, currentEnum]
ContainingEnumLine(cur, content, trimmedLine, k) ==
    IF StartsWithAt(trimmedLine, 0, kwEnum \o <<" ">>)
    THEN IF k # -1
         THEN [inEnum |-> TRUE,
               currentEnum |-> [kind |-> "info",
                                info |-> parseEnum(OpenerName(trimmedLine, k, kwEnum),
                                                   content)]]
         ELSE cur
    ELSE IF cur.inEnum /\ trimmedLine = <<"}">>
    THEN [inEnum |-> FALSE, currentEnum |-> NoAnswer]
    ELSE cur

RECURSIVE ContainingEnumFrom(_, _, _, _, _)
ContainingEnumFrom(cur, content, lines, i, line) ==
    IF i > line THEN cur.currentEnum
    ELSE ContainingEnumFrom(
             ContainingEnumLine(cur, content, Trim(lines[i + 1]),
                                EnumOpenerAt(Trim(lines[i + 1]))),
             content, lines, i + 1, line)

\* getContainingEnum(document, line), lines counted from 0
getContainingEnum(content, line) ==
    ContainingEnumFrom([inEnum |-> FALSE, currentEnum |-> NoAnswer], content,
                       Split(content, "\n"), 0, line)

\* new RegExp(`^\s*(${targetWord})\s*=\s*\d+`).test(lineText), for a word in
\* the case it has on the line
enumValueRegex(lineText, targetWord) ==
    Dg1(lineText, Sp0(lineText, Lit(lineText, Sp0(lineText, Lit(lineText,
            Sp0(lineText, 0), targetWord)), <<"=">>))) # -1

\* enumInfo.values.find(v => v.name === targetWord), as a hover payload
EnumValueAnswer(enumInfo, targetWord) ==
    IF enumInfo.kind = "none" THEN NoAnswer
    ELSE IF FindNamed(enumInfo.info.values, targetWord) = -1 THEN NoAnswer
    ELSE [kind |-> "value", enum |-> enumInfo.info.name,
          value |-> enumInfo.info.values[FindNamed(enumInfo.info.values, targetWord)]]

\* the enum value test of provideHover: the payload, or none and the
\* general lookup follows
HoverEnumValue(content, line, targetWord) ==
    IF enumValueRegex(Split(content, "\n")[line + 1], targetWord)
    THEN EnumValueAnswer(getContainingEnum(content, line), targetWord)
    ELSE NoAnswer

-----------------------------------------------------------------------------
(* provideHover and provideDefinition: what the cursor is on.  The scope   *)
(* guessScope gives is a sequence of frames, the innermost first and the   *)
(* Proto root last; each frame has its kind, its name and its children.    *)

UpperCase == <<"A","B","C","D","E","F","G","H","I","J","K","L","M","N","O","P","Q","R","S","T","U","V","W","X","Y","Z">>
LowerCase == <<"a","b","c","d","e","f","g","h","i","j","k","l","m","n","o","p","q","r","s","t","u","v","w","x","y","z">>

\* a character as a regular expression with the i flag compares it
FoldChar(c) ==
    IF \E k \in 1..26 : UpperCase[k] = c
    THEN LowerCase[CHOOSE k \in 1..26 : UpperCase[k] = c]
    ELSE c

Fold(s) == [k \in 1..Len(s) |-> FoldChar(s[k])]

kwImport == <<"i","m","p","o","r","t">>
kwRpc == <<"r","p","c">>
kwStream == <<"s","t","r","e","a","m">>
kwReturns == <<"r","e","t","u","r","n","s">>
kwExtend == <<"e","x","t","e","n","d">>

\* the keys of primitiveDocs
PrimitiveTypes ==
    {<<"d","o","u","b","l","e">>,
     <<"f","l","o","a","t">>,
     <<"i","n","t","3","2">>,
     <<"i","n","t","6","4">>,
     <<"u","i","n","t","3","2">>,
     <<"u","i","n","t","6","4">>,
     <<"s","i","n","t","3","2">>,
     <<"s","i","n","t","6","4">>,
     <<"f","i","x","e","d","3","2">>,
     <<"f","i","x","e","d","6","4">>,
     <<"s","f","i","x","e","d","3","2">>,
     <<"s","f","i","x","e","d","6","4">>,
     <<"b","o","o","l">>,
     <<"s","t","r","i","n","g">>,
     <<"b","y","t","e","s">>}

\* Proto3Primitive.isTypePrimitive
isTypePrimitive(word) == word \in PrimitiveTypes

\* getPrimitiveTypeHover
Card(type) == [kind |-> "card", type |-> type]

RECURSIVE ScopePath(_, _)
\* the names from frame k outwards, the outermost first, the root left out
ScopePath(scope, k) ==
    IF k > Len(scope) \/ scope[k].kind = "Proto" THEN <<>>
    ELSE ScopePath(scope, k + 1)
         \o (IF scope[k].name = undefined THEN <<>> ELSE <<scope[k].name>>)

\* the full name of the scope the cursor is in
ScopeFullName(scope) == Join(ScopePath(scope, 2) \o <<scope[1].name>>, <<".">>)

HasChild(frame, name) ==
    \E c \in frame.children : c.kind \in {"Message", "Enum"} /\ c.name = name

\* resolveTypePath when the first frame with a child named as the first
\* part of the target is frame k (-1: there is none)
ResolvedAt(scope, targetName, k) ==
    IF k = -1 THEN undefined
    ELSE Join(ScopePath(scope, k) \o <<targetName>>, <<".">>)

resolveTypePath(scope, targetName) ==
    ResolvedAt(scope, targetName,
               First({k \in 1..Len(scope) :
                         HasChild(scope[k], Split(targetName, ".")[1])}))

\* fullPath || targetWord
SearchName(fullPath, targetWord) == IF fullPath = undefined THEN targetWord ELSE fullPath

\* ('|") at i
Quote(l, i) == IF i >= 0 /\ At(l, i) \in {"'", "\""} THEN i + 1 ELSE -1

RECURSIVE ImportPath(_, _, _)
\* ((\w+\/)*word)('|")\s*; begun at i
ImportPath(l, i, word) ==
    \/ Lit(l, Sp0(l, Quote(l, Lit(l, i, word))), <<";">>) # -1
    \/ /\ Wd1(l, i) # -1
       /\ At(l, Wd1(l, i)) = "/"
       /\ ImportPath(l, Wd1(l, i) + 1, word)

\* ^\s*import\s+('|")((\w+\/)*word)('|")\s*;.*$ with the i flag
importRegExp(lineText, word) ==
    /\ Quote(Fold(lineText), Sp1(Fold(lineText), Lit(Fold(lineText), Sp0(Fold(lineText), 0), kwImport))) # -1
    /\ ImportPath(Fold(lineText),
                  Quote(Fold(lineText), Sp1(Fold(lineText), Lit(Fold(lineText), Sp0(Fold(lineText), 0), kwImport))),
                  Fold(word))

\* \s+\w+\s*=\s*\d+ begun at i
Assigned(l, i) == Dg1(l, Sp0(l, Lit(l, Sp0(l, Wd1(l, Sp1(l, i))), <<"=">>)))

\* (stream\s+)? begun at i: the positions it can end at
Streamed(l, i) == {i, Sp1(l, Lit(l, i, kwStream))}

\* ^\s*rpc\s+\w+\s*\(\s*
RpcOpen(l) == Sp0(l, Lit(l, Sp0(l, Wd1(l, Sp1(l, Lit(l, Sp0(l, 0), kwRpc)))), <<"(">>))

\* \s*\)\s*returns\s*\(\s* begun at i
RpcReturns(l, i) ==
    Sp0(l, Lit(l, Sp0(l, Lit(l, Sp0(l, Lit(l, Sp0(l, i), <<")">>)), kwReturns)), <<"(">>))

\* whether context c of provideHover matches the line l for the word w,
\* both folded
contextMatches(l, w, c) ==
    CASE c = 1 -> \E label \in 0..3 : Assigned(l, Lit(l, TypeStart(l, label), w)) # -1
      [] c = 2 -> Assigned(l, Lit(l, Sp0(l, Wd1(l, Sp0(l, Lit(l, Sp0(l,
                      Lit(l, MapOpen(l, Sp0(l, 0)), w)), <<",">>)))), <<">">>)) # -1
      [] c = 3 -> Assigned(l, Lit(l, Sp0(l, Lit(l, Sp0(l, Lit(l, Sp0(l,
                      Wd1(l, MapOpen(l, Sp0(l, 0)))), <<",">>)), w)), <<">">>)) # -1
      [] c = 4 -> \E p \in Streamed(l, RpcOpen(l)) :
                      Lit(l, Sp0(l, Lit(l, p, w)), <<")">>) # -1
      [] c = 5 -> \E p \in Streamed(l, RpcOpen(l)) :
                      \E q \in Streamed(l, RpcReturns(l, Wd1(l, p))) :
                          Lit(l, Sp0(l, Lit(l, q, w)), <<")">>) # -1
      [] c = 6 -> Lit(l, Sp0(l, Lit(l, Sp1(l, Lit(l, Sp0(l, 0), kwExtend)), w)),
                      <<"{">>) # -1

\* map\s*<[^>]+> begun at k when the angle bracket is open at m: the
\* position after the first closing bracket
MapTypeClosed(l, m) ==
    IF m = -1 \/ IndexOfChar(l, ">", m) <= m THEN -1
    ELSE IndexOfChar(l, ">", m) + 1

\* map\s*<[^>]+> begun at k
MapTypeEnd(l, k) == MapTypeClosed(l, Lit(l, Sp0(l, Lit(l, k, kwMap)), <<"<">>))

\* \s+(word)\s*=\s*\d+ begun at e
FieldNameTail(l, e, w) == Dg1(l, Sp0(l, Lit(l, Sp0(l, Lit(l, Sp1(l, e), w)), <<"=">>)))

\* the field-name test with the map alternative left out
fieldRegexNoMap(lineText, targetWord) ==
    \E label \in 0..3 :
        FieldNameTail(Fold(lineText), TypeEnd(Fold(lineText), TypeStart(Fold(lineText), label)),
                      Fold(targetWord)) # -1

\* the field-name test of provideHover:
\*   ^\s*(optional|repeated|required)?\s*(?:map\s*<[^>]+>|\w+(?:\.(?:\w+))*)
\*    \s+(word)\s*=\s*\d+   with the i flag
fieldRegex(lineText, targetWord) ==
    \/ \E label \in 0..3 :
           FieldNameTail(Fold(lineText),
                         MapTypeEnd(Fold(lineText), TypeStart(Fold(lineText), label)),
                         Fold(targetWord)) # -1
    \/ fieldRegexNoMap(lineText, targetWord)

\* what a provider call has left to do: a lookup of a name over the
\* candidate files, the import lookup, or a return
Lookup(name) == [op |-> "lookup", name |-> name]
Return(a) == [op |-> "return", answer |-> a]
ImportLookup == [op |-> "import"]

\* the check for the definition of the current scope
ScopeDefinitionSteps(scope, targetWord) ==
    IF scope[1].kind \in {"Message", "Enum"} /\ scope[1].name = targetWord
    THEN <<Lookup(ScopeFullName(scope))>>
    ELSE <<>>

RECURSIVE ContextSteps(_, _, _, _)
\* the loop over the contexts from context c on: one lookup for each that
\* matches
ContextSteps(scope, lineText, targetWord, c) ==
    IF c > 6 THEN <<>>
    ELSE (IF contextMatches(Fold(lineText), Fold(targetWord), c)
          THEN <<Lookup(SearchName(resolveTypePath(scope, targetWord), targetWord))>>
          ELSE <<>>)
         \o ContextSteps(scope, lineText, targetWord, c + 1)

\* the enum value test: the value's payload is returned, or the call goes on
EnumValueSteps(a) == IF a.kind = "none" THEN <<>> ELSE <<Return(a)>>

\* provideHover after the comment and empty-word tests: what it does, in
\* order, until one step ends the call
HoverSteps(scope, content, line, targetWord) ==
    ScopeDefinitionSteps(scope, targetWord)
    \o (IF isTypePrimitive(targetWord) THEN <<Return(Card(targetWord))>>
        ELSE IF importRegExp(Split(content, "\n")[line + 1], targetWord)
        THEN <<ImportLookup>>
        ELSE ContextSteps(scope, Split(content, "\n")[line + 1], targetWord, 1)
             \o EnumValueSteps(HoverEnumValue(content, line, targetWord))
             \o <<Lookup(targetWord)>>)

\* (\w+\.)*\w+ begun at i, with the white space around it
Pattern(l, i) == Sp0(l, TypeEnd(l, Sp0(l, i)))

\* \s+\w+\s*=\s*\d+;.*$ begun at i
FieldPattern(l, i) == Lit(l, Assigned(l, i), <<";">>) # -1

\* \s*\(\s*(stream\s+)?pattern\s*\)\s* begun at i: the positions it can end at
ReqOrRsp(l, i) ==
    {Sp0(l, Lit(l, Sp0(l, Pattern(l, p)), <<")">>)) :
        p \in Streamed(l, Sp0(l, Lit(l, Sp0(l, i), <<"(">>)))}

\* messageRegExp: the white space before the name is that of the pattern
\* or of the field part
messageRegExp(l) ==
    \E label \in {0, 1, 3} :
        \E e \in {TypeEnd(l, Sp0(l, TypeStart(l, label)))} :
            /\ e # -1
            /\ FieldPattern(l, e)

messageInMap(l) ==
    \E e \in {Lit(l, Pattern(l, Lit(l, Pattern(l, Lit(l, Sp0(l, Lit(l, Sp0(l, 0), kwMap)),
                  <<"<">>)), <<",">>)), <<">">>)} :
        /\ e # -1
        /\ FieldPattern(l, e)

messageInRpcRegExp(l) ==
    \E p \in ReqOrRsp(l, Wd1(l, Sp0(l, Lit(l, Sp0(l, 0), kwRpc)))) :
        \E q \in ReqOrRsp(l, Lit(l, p, kwReturns)) :
            At(l, q) \in {";", "{"}

\* provideDefinition after the comment and empty-word tests
DefinitionSteps(lineText, targetDefinition) ==
    IF isTypePrimitive(targetDefinition) THEN <<>>
    ELSE (IF importRegExp(lineText, targetDefinition) THEN <<ImportLookup>> ELSE <<>>)
         \o (IF \/ messageRegExp(Fold(lineText))
                \/ messageInRpcRegExp(Fold(lineText))
                \/ messageInMap(Fold(lineText))
             THEN <<Lookup(targetDefinition)>>
             ELSE <<>>)

-----------------------------------------------------------------------------
(* The files a lookup runs over.  A file's text is written out from a      *)
(* description, line by line, each line a sequence of segments: a          *)
(* declaration (keyword, one space, name) or other text.  Where a          *)
(* declaration's name stands is read off the description.                  *)

nmStatus == <<"S","t","a","t","u","s">>
nmOther == <<"O","t","h","e","r">>
nmAge == <<"a","g","e">>
nmM == <<"M">>
nmN == <<"N">>
nmColor == <<"C","o","l","o","r">>
txPrimary == <<"p","r","i","m","a","r","y">>
tgQualified == <<"a",".","b",".","M",".","N">>
tgRelative == <<"M",".","N">>

Decl(keyword, name) == [decl |-> TRUE, keyword |-> keyword, name |-> name]
Raw(text) == [decl |-> FALSE, keyword |-> <<>>, name |-> text]

TextNames ==
    {"plain", "status", "age", "nestedBlock", "nestedLine", "colorBlock",
     "colorInline", "keyword", "client", "inner", "shadow", "labels", "deeper",
     "outside"}

\* the lines of the texts, by name
TextLines(t) ==
    CASE t = "plain" ->
             << <<Decl(kwMessage, nmOther), Raw(<<" ","{">>)>>,
                <<Raw(<<"}">>)>> >>
      [] t = "status" ->
             << <<Decl(kwMessage, nmStatus), Raw(<<" ","{">>)>>,
                <<Raw(<<" "," ","i","n","t","3","2"," ","c","o","d","e"," ","="," ","1",";">>)>>,
                <<Raw(<<"}">>)>> >>
      [] t = "age" ->
             << <<Raw(<<" "," ">>), Decl(kwMessage, nmAge), Raw(<<" ","{">>)>>,
                <<Raw(<<" "," ","}">>)>> >>
      [] t = "nestedBlock" ->
             << <<Raw(<<"p","a","c","k","a","g","e"," ","a",".","b",";">>)>>,
                <<Decl(kwMessage, nmM), Raw(<<" ","{">>)>>,
                <<Raw(<<" "," ">>), Decl(kwMessage, nmN), Raw(<<" ","{","}">>)>>,
                <<Raw(<<"}">>)>> >>
      [] t = "nestedLine" ->
             << <<Raw(<<"p","a","c","k","a","g","e"," ","a",".","b",";"," ">>), Decl(kwMessage, nmM), Raw(<<" ","{"," ">>),
                  Decl(kwMessage, nmN), Raw(<<" ","{","}"," ","}">>)>> >>
      [] t = "colorBlock" ->
             << <<Decl(kwEnum, nmColor), Raw(<<" ","{">>)>>,
                <<Raw(<<" "," ","R","E","D"," ","="," ","0",";"," ","/","/"," ","p","r","i","m","a","r","y">>)>>,
                <<Raw(<<" "," ","B","L","U","E"," ","="," ","1",";">>)>>,
                <<Raw(<<"}">>)>> >>
      [] t = "keyword" ->
             << <<Decl(kwMessage, tyString), Raw(<<" ","{">>)>>,
                <<Raw(<<" "," ","s","t","r","i","n","g"," ","n","a","m","e"," ","="," ","1",";">>)>>,
                <<Raw(<<"}">>)>>,
                <<Raw(<<"/","*"," ","s","t","r","i","n","g"," ","*","/">>)>> >>
      [] t = "client" ->
             << <<Raw(<<"i","m","p","o","r","t"," ","\"","s","t","a","t","u","s",".","p","r","o","t","o","\"",";">>)>>,
                <<Decl(kwMessage, nmOther), Raw(<<" ","{">>)>>,
                <<Raw(<<" "," ","S","t","a","t","u","s"," ","s","t","a","t","u","s"," ","="," ","1",";">>)>>,
                <<Raw(<<" "," ","i","n","t","3","2"," ","c","o","d","e"," ","="," ","2",";">>)>>,
                <<Raw(<<" "," ","m","a","p","<","s","t","r","i","n","g",","," ","S","t","a","t","u","s",">"," ","b","y","N","a","m","e"," ","="," ","3",";">>)>>,
                <<Raw(<<"}">>)>>,
                <<Raw(<<"/","*"," ","S","t","a","t","u","s"," ","*","/">>)>> >>
      [] t = "inner" ->
             << <<Decl(kwMessage, nmM), Raw(<<" ","{">>)>>,
                <<Raw(<<" "," ">>), Decl(kwMessage, nmN), Raw(<<" ","{","}">>)>>,
                <<Raw(<<" "," ","N"," ","i","n","n","e","r"," ","="," ","1",";">>)>>,
                <<Raw(<<"}">>)>> >>
      [] t = "labels" ->
             << <<Decl(kwMessage, nmBar), Raw(<<" ","{","}">>)>>,
                <<Decl(kwMessage, nmFoo), Raw(<<" ","{">>)>>,
                <<Raw(<<" "," ","B","a","r"," ","a"," ","="," ","1",";">>)>>,
                <<Raw(<<" "," ","o","p","t","i","o","n","a","l"," ","B","a","r"," ","b"," ","="," ","2",";">>)>>,
                <<Raw(<<" "," ","r","e","q","u","i","r","e","d"," ","B","a","r"," ","c"," ","="," ","3",";">>)>>,
                <<Raw(<<" "," ","r","e","p","e","a","t","e","d"," ","B","a","r"," ","d"," ","="," ","4",";">>)>>,
                <<Raw(<<" "," ","B","a","r"," ","e"," ","="," ","5"," ","[","d","e","p","r","e","c","a","t","e","d"," ","="," ","t","r","u","e","]",";">>)>>,
                <<Raw(<<" "," ","r","e","p","e","a","t","e","d"," ","B","a","r"," ","f"," ","="," ","6"," ","[","d","e","p","r","e","c","a","t","e","d"," ","="," ","t","r","u","e","]",";">>)>>,
                <<Raw(<<"}">>)>> >>
      [] t = "deeper" ->
             << <<Decl(kwMessage, nmM), Raw(<<" ","{">>)>>,
                <<Raw(<<" "," ">>), Decl(kwMessage, nmOther), Raw(<<" ","{">>)>>,
                <<Raw(<<" "," "," "," ">>), Decl(kwMessage, nmN), Raw(<<" ","{","}">>)>>,
                <<Raw(<<" "," ","}">>)>>,
                <<Raw(<<"}">>)>> >>
      [] t = "outside" ->
             << <<Decl(kwMessage, nmM), Raw(<<" ","{">>)>>,
                <<Raw(<<"}">>)>>,
                <<Decl(kwMessage, nmN), Raw(<<" ","{","}">>)>> >>
      [] t = "shadow" ->
             << <<Decl(kwMessage, nmM), Raw(<<" ","{">>)>>,
                <<Raw(<<" "," ">>), Decl(kwMessage, nmN), Raw(<<" ","{">>)>>,
                <<Raw(<<" "," "," "," ","i","n","t","3","2"," ","a"," ","="," ","1",";">>)>>,
                <<Raw(<<" "," ","}">>)>>,
                <<Raw(<<"}">>)>>,
                <<Decl(kwMessage, nmN), Raw(<<" ","{">>)>>,
                <<Raw(<<" "," ","i","n","t","3","2"," ","b"," ","="," ","2",";">>)>>,
                <<Raw(<<"}">>)>>,
                <<Decl(kwMessage, nmOther), Raw(<<" ","{">>)>>,
                <<Raw(<<" "," ","N"," ","i","n","n","e","r"," ","="," ","3",";">>)>>,
                <<Raw(<<"}">>)>> >>
      [] t = "colorInline" ->
             << <<Decl(kwEnum, nmColor), Raw(<<" ","{"," ","R","E","D"," ","="," ","0",";"," ","/","/"," ","p","r","i","m","a","r","y">>)>>,
                <<Raw(<<" ","B","L","U","E"," ","="," ","1",";"," ","}">>)>> >>

SegmentText(g) == IF g.decl THEN g.keyword \o <<" ">> \o g.name ELSE g.name

LineText(segments) ==
    Concat([j \in 1..Len(segments) |-> SegmentText(segments[j])])

\* the text of a file
FileText(t) == Join([i \in 1..Len(TextLines(t)) |-> LineText(TextLines(t)[i])], NL)

\* where the names declared in a text stand: line (from 0), first column
\* and the column after the last
Declarations(t) ==
    {[name |-> TextLines(t)[i][j].name,
      line |-> i - 1,
      start |-> Len(LineText(SubSeq(TextLines(t)[i], 1, j - 1)))
                + Len(TextLines(t)[i][j].keyword) + 1,
      end |-> Len(LineText(SubSeq(TextLines(t)[i], 1, j)))] :
        <<i, j>> \in {<<i, j>> \in (1..4) \X (1..5) :
                         /\ i <= Len(TextLines(t))
                         /\ j <= Len(TextLines(t)[i])
                         /\ TextLines(t)[i][j].decl}}

\* how many files besides the requesting document a world holds at most
MaxOthers == 2

\* a world: the requesting document (file 1) and the other files (file
\* k + 1 is others[k]), each with the name of its text, whether it can be
\* read, and for the others how it is reached: by an import of the
\* document or by the scan of a search root
Worlds(docTexts, texts) ==
    {[doc |-> d, others |-> o] :
        d \in [text : docTexts, readable : BOOLEAN, root : {0}],
        o \in UNION {[1..n -> [text : texts, readable : BOOLEAN,
                               via : {"import", "scan"}, root : {1}]] :
                        n \in 0..MaxOthers}}

NoWorld == [doc |-> [text |-> "plain", readable |-> TRUE, root |-> 0], others |-> <<>>]

TextOfFile(w, f) == IF f = 1 THEN w.doc.text ELSE w.others[f - 1].text

\* whether fs.readFileSync(file) returns
CanRead(w, f) == IF f = 1 THEN w.doc.readable ELSE w.others[f - 1].readable

\* the files an expansion yields: those reached the given way, in order
Reached(w, via) ==
    Ascending({k + 1 : k \in {k \in 1..Len(w.others) : w.others[k].via \in {via, "both"}}})

\* whether the scan of search root r finds file f: a file is under root 1,
\* under root 2 or, the roots overlapping, under both (3); the document
\* may be under no root (0)
UnderRoot(w, f, r) ==
    IF f = 1 THEN w.doc.root \in {r, 3}
    ELSE /\ w.others[f - 1].via \in {"scan", "both"}
         /\ w.others[f - 1].root \in {r, 3}

\* the files the scan of search root r yields
ScanRoot(w, r) == Ascending({f \in 1..(Len(w.others) + 1) : UnderRoot(w, f, r)})

\* the files pushed on the list: the document, those of its imports, those
\* of the search roots in the order of the roots
allFiles(w) == <<1>> \o Reached(w, "import") \o ScanRoot(w, 1) \o ScanRoot(w, 2)

RECURSIVE Unique(_)
\* Array.from(new Set(files)): the first occurrence of each file is kept
Unique(fs) ==
    IF Len(fs) = 0 THEN <<>>
    ELSE LET rest == Unique(SubSeq(fs, 1, Len(fs) - 1))
         IN  IF \E k \in 1..Len(rest) : rest[k] = fs[Len(fs)] THEN rest
             ELSE Append(rest, fs[Len(fs)])

\* the candidate list: the document, the files of its imports, the files
\* found under the search roots
\* the list as it would be without the Set
uniqueFilesRepeating(w) == allFiles(w)

uniqueFiles(w) == Unique(allFiles(w))

-----------------------------------------------------------------------------
(* One pass of the loops over the candidate list                           *)

Threw == [kind |-> "threw"]

\* the loop goes on to the next candidate
NextCandidate(i) == [phase |-> "visiting", index |-> i + 1, answer |-> NoAnswer]

\* the call ends with the answer
Returned(i, a) == [phase |-> "done", index |-> i, answer |-> a]

\* getMessageOrEnumInfo, a read that fails: the error is caught and
\* thrown out of the call, where the source goes on to the next candidate
HoverReadErrorThrown(i) == Returned(i, Threw)

\* getMessageOrEnumInfo, a read that fails: the error is caught and the
\* loop goes on
HoverReadError(i) == NextCandidate(i)

\* getMessageOrEnumInfo after a file was read and searched
HoverSearched(file, i, a) ==
    IF a.kind = "none" THEN NextCandidate(i)
    ELSE Returned(i, [kind |-> "info", file |-> file, info |-> a.info])

\* one pass of the loop of getMessageOrEnumInfo, at candidate i
HoverStep(w, targetName, fs, i) ==
    IF ~CanRead(w, fs[i]) THEN HoverReadError(i)
    ELSE HoverSearched(fs[i], i, InfoInFile(FileText(TextOfFile(w, fs[i])), targetName))

\* findEnumOrMessageDefinition, a read that fails: nothing catches the
\* error, it ends the call
DefinitionReadError(i) == Returned(i, Threw)

\* findEnumOrMessageDefinition after a file was read and searched
DefinitionSearched(i, location) ==
    IF location.kind = "none" THEN NextCandidate(i) ELSE Returned(i, location)

\* one pass of the loop of findEnumOrMessageDefinition, at candidate i
DefinitionStep(w, target, fs, i) ==
    IF ~CanRead(w, fs[i]) THEN DefinitionReadError(i)
    ELSE DefinitionSearched(i, DefinitionInFile(fs[i],
                                   Split(FileText(TextOfFile(w, fs[i])), "\n"), target))

\* provideHover from the enum value test on: the value's payload, or the
\* general lookup begins
HoverValueStep(a) ==
    IF a.kind = "none" THEN [phase |-> "visiting", index |-> 1, answer |-> NoAnswer]
    ELSE Returned(0, a)

-----------------------------------------------------------------------------
(* The state                                                               *)

VARIABLES
    input,      \* the description the document was written out from
    content,    \* the text of the document
    phase,      \* "ready", then "parsed", "reparsed" or "visiting", "done"
    message,    \* parseMessage(Foo, content)
    reparsed,   \* parseMessage(Foo, message.rawSource)
    world,      \* the files there are
    request,    \* what is asked: its kind, the target name, the cursor line
    files,      \* the candidate list of the lookup
    index,      \* the candidate the loop is at (from 1)
    answer,     \* what the call returned
    enumInfo,   \* parseEnum(Color, content)
    facade,     \* where a provider call stands: the tests left, what it has done
    stack,      \* the stack of the call in progress: the message blocks open at
                \* the line a scan is at, or the strings being resolved
    currentDepth \* the brace depth after the lines scanned

vars == <<input, content, phase, message, reparsed, world, request, files, index,
          answer, enumInfo, facade, stack, currentDepth>>

NoMessage == [name |-> undefined]
NoEnum == [name |-> undefined]
NoInput == [items |-> <<>>, prelude |-> "none", layout |-> "block"]
NoRequest == [kind |-> "parse", target |-> nmFoo, line |-> 0]
NoFacade == [steps |-> <<>>, searched |-> FALSE, read |-> FALSE, reads |-> <<>>]

-----------------------------------------------------------------------------
(* The parser run on a document                                            *)

Init ==
    /\ input \in Inputs
    /\ content = Render(input)
    /\ phase = "ready"
    /\ message = NoMessage
    /\ reparsed = NoMessage
    /\ world = NoWorld
    /\ request = NoRequest
    /\ files = <<>>
    /\ index = 0
    /\ answer = NoAnswer
    /\ enumInfo = NoEnum
    /\ facade = NoFacade
    /\ stack = <<>>
    /\ currentDepth = 0

\* a caller asks for the description of message Foo
ParseMessage ==
    /\ phase = "ready"
    /\ message' = parseMessage(nmFoo, content)
    /\ phase' = "parsed"
    /\ UNCHANGED <<stack, currentDepth, facade, enumInfo, input, content, reparsed, world, request, files, index, answer>>

\* the recorded rawSource is parsed again for the same name
ReparseRawSource ==
    /\ phase = "parsed"
    /\ reparsed' = parseMessage(nmFoo, message.rawSource)
    /\ phase' = "reparsed"
    /\ UNCHANGED <<stack, currentDepth, facade, enumInfo, input, content, message, world, request, files, index, answer>>

Next == ParseMessage \/ ReparseRawSource

Spec == Init /\ [][Next]_vars

-----------------------------------------------------------------------------
(* Hover: the enum value test and the type lookup                          *)

HoverDocTexts == {"plain", "status", "colorBlock", "colorInline"}
HoverFileTexts == {"status", "nestedBlock"}

\* the lines of the enum texts that hold a value, with the value's name
ValueLines == {[line |-> 1, word |-> nmRED], [line |-> 2, word |-> nmBLUE]}
ValueLinesInline == {[line |-> 0, word |-> nmRED], [line |-> 1, word |-> nmBLUE]}

\* what can be asked in a world: the info of a type by name, or a hover on
\* the name of an enum value where the document is an enum text
HoverRequests(w) ==
    {[kind |-> "type", target |-> t, line |-> 0] : t \in {nmStatus, tgRelative}}
    \cup {[kind |-> "value", target |-> c.word, line |-> c.line] :
             c \in IF w.doc.text = "colorBlock" THEN ValueLines
                   ELSE IF w.doc.text = "colorInline" THEN ValueLinesInline
                   ELSE {}}

HoverInit ==
    /\ world \in Worlds(HoverDocTexts, HoverFileTexts)
    /\ request \in HoverRequests(world)
    /\ content = FileText(world.doc.text)
    /\ input = NoInput
    /\ phase = "ready"
    /\ message = NoMessage
    /\ reparsed = NoMessage
    /\ files = uniqueFiles(world)
    /\ index = 0
    /\ answer = NoAnswer
    /\ enumInfo = NoEnum
    /\ facade = NoFacade
    /\ stack = <<>>
    /\ currentDepth = 0

\* provideHover on the name of an enum value: the enum value test, then
\* the general lookup
ProvideHoverOnValue ==
    /\ phase = "ready"
    /\ request.kind = "value"
    /\ LET st == HoverValueStep(HoverEnumValue(content, request.line, request.target))
       IN  /\ phase' = st.phase
           /\ index' = st.index
           /\ answer' = st.answer
    /\ UNCHANGED <<stack, currentDepth, facade, enumInfo, input, content, message, reparsed, world, request, files>>

\* getMessageOrEnumInfo is called for a type name
GetMessageOrEnumInfo ==
    /\ phase = "ready"
    /\ request.kind = "type"
    /\ phase' = "visiting"
    /\ index' = 1
    /\ UNCHANGED <<stack, currentDepth, facade, enumInfo, input, content, message, reparsed, world, request, files, answer>>

\* one pass of the loop of getMessageOrEnumInfo
HoverVisit ==
    /\ phase = "visiting"
    /\ index <= Len(files)
    /\ LET st == HoverStep(world, request.target, files, index)
       IN  /\ phase' = st.phase
           /\ index' = st.index
           /\ answer' = st.answer
    /\ UNCHANGED <<stack, currentDepth, facade, enumInfo, input, content, message, reparsed, world, request, files>>

\* the loop has passed the last candidate: undefined is returned
HoverExhausted ==
    /\ phase = "visiting"
    /\ index > Len(files)
    /\ phase' = "done"
    /\ UNCHANGED <<stack, currentDepth, facade, enumInfo, input, content, message, reparsed, world, request, files, index,
                   answer>>

HoverNext == ProvideHoverOnValue \/ GetMessageOrEnumInfo \/ HoverVisit \/ HoverExhausted

HoverSpec == HoverInit /\ [][HoverNext]_vars

-----------------------------------------------------------------------------
(* Definition lookup                                                       *)

DefinitionDocTexts == {"plain", "status", "age"}
DefinitionFileTexts ==
    {"plain", "status", "age", "nestedBlock", "nestedLine", "deeper", "outside"}
DefinitionTargets == {nmStatus, nmAge, tgQualified, tgRelative}

DefinitionInit ==
    /\ world \in Worlds(DefinitionDocTexts, DefinitionFileTexts)
    /\ request \in {[kind |-> "definition", target |-> t, line |-> 0] :
                       t \in DefinitionTargets}
    /\ content = FileText(world.doc.text)
    /\ input = NoInput
    /\ phase = "ready"
    /\ message = NoMessage
    /\ reparsed = NoMessage
    /\ files = uniqueFiles(world)
    /\ index = 0
    /\ answer = NoAnswer
    /\ enumInfo = NoEnum
    /\ facade = NoFacade
    /\ stack = <<>>
    /\ currentDepth = 0

\* findEnumOrMessageDefinition is called for a type name
FindEnumOrMessageDefinition ==
    /\ phase = "ready"
    /\ phase' = "visiting"
    /\ index' = 1
    /\ UNCHANGED <<stack, currentDepth, facade, enumInfo, input, content, message, reparsed, world, request, files, answer>>

\* one pass of the loop of findEnumOrMessageDefinition
DefinitionVisit ==
    /\ phase = "visiting"
    /\ index <= Len(files)
    /\ LET st == DefinitionStep(world, request.target, files, index)
       IN  /\ phase' = st.phase
           /\ index' = st.index
           /\ answer' = st.answer
    /\ UNCHANGED <<stack, currentDepth, facade, enumInfo, input, content, message, reparsed, world, request, files>>

\* the loop has passed the last candidate: undefined is returned
DefinitionExhausted ==
    /\ phase = "visiting"
    /\ index > Len(files)
    /\ phase' = "done"
    /\ UNCHANGED <<stack, currentDepth, facade, enumInfo, input, content, message, reparsed, world, request, files, index,
                   answer>>

DefinitionNext == FindEnumOrMessageDefinition \/ DefinitionVisit \/ DefinitionExhausted

DefinitionSpec == DefinitionInit /\ [][DefinitionNext]_vars

-----------------------------------------------------------------------------
(* The parsers run on an enum document: enum Color, whole, cut short,     *)
(* without its opener, or inside a message Foo that is never closed        *)

EnumItemNames == {"red", "blue", "unknown", "comment", "blank", "option"}

\* the line an item of an enum body is written as
EnumItemLine(n) ==
    CASE ItemOf(n).kind = "field" ->
             ValueLine(ItemOf(n))
             \o (IF ItemOf(n).note # undefined
                 THEN <<" ">> \o Slashes \o <<" ">> \o ItemOf(n).note ELSE <<>>)
      [] ItemOf(n).kind = "comment" -> Slashes \o <<" ">> \o ItemOf(n).name
      [] ItemOf(n).kind = "blank" -> <<>>
      [] OTHER -> ItemOf(n).name

EnumBody(items) == [k \in 1..Len(items) |-> EnumItemLine(items[k])]

ColorOpener == kwEnum \o <<" ">> \o nmColor \o <<" ", "{">>

\* the lines of the enum in a frame
EnumFrameLines(layout, body) ==
    CASE layout = "block" -> <<ColorOpener>> \o Indent(body) \o << <<"}">> >>
      [] layout = "unclosed" -> <<ColorOpener>> \o Indent(body)
      [] layout = "headless" -> Indent(body) \o << <<"}">> >>
      [] layout = "inFoo" ->
             <<FooOpener>> \o Indent(<<ColorOpener>> \o Indent(body) \o << <<"}">> >>)

RenderEnum(in) ==
    Join(PreludeLines(in.prelude) \o EnumFrameLines(in.layout, EnumBody(in.items)), NL)

EnumInputs ==
    {[items |-> it, prelude |-> pre, layout |-> lay] :
        it \in UNION {[1..n -> EnumItemNames] : n \in 0..MaxItems},
        pre \in {"none", "doc"},
        lay \in {"block", "unclosed", "headless", "inFoo"}}

EnumInit ==
    /\ input \in EnumInputs
    /\ content = RenderEnum(input)
    /\ phase = "ready"
    /\ message = NoMessage
    /\ reparsed = NoMessage
    /\ world = NoWorld
    /\ request = NoRequest
    /\ files = <<>>
    /\ index = 0
    /\ answer = NoAnswer
    /\ enumInfo = NoEnum
    /\ facade = NoFacade
    /\ stack = <<>>
    /\ currentDepth = 0

\* a caller asks the copy of the unnamed source file for enum Color
ParseEnum ==
    /\ phase = "ready"
    /\ enumInfo' = parseEnum(nmColor, content)
    /\ phase' = "enum"
    /\ UNCHANGED <<stack, currentDepth, facade, input, content, message, reparsed, world, request, files,
                   index, answer>>

\* a caller asks the copy of src/src/proto3Hover.ts for enum Color
ParseEnumTs ==
    /\ phase = "ready"
    /\ enumInfo' = parseEnumTs(nmColor, content)
    /\ phase' = "enumTs"
    /\ UNCHANGED <<stack, currentDepth, facade, input, content, message, reparsed, world, request, files,
                   index, answer>>

EnumNext == ParseEnum \/ ParseEnumTs \/ ParseMessage

EnumSpec == EnumInit /\ [][EnumNext]_vars

-----------------------------------------------------------------------------
(* The providers: provideHover and provideDefinition are called with the   *)
(* cursor on a word of the document, in a world of files                   *)

FacadeDocTexts == {"keyword", "client", "inner", "shadow", "labels"}
FacadeFileTexts == {"status"}

nmName == <<"n","a","m","e">>
nmInner1 == <<"i","n","n","e","r">>
nmCode == <<"c","o","d","e">>
nmByName == <<"b","y","N","a","m","e">>
nmStatusProto == <<"s","t","a","t","u","s",".","p","r","o","t","o">>
nmStatusField == <<"s","t","a","t","u","s">>

Frame(kind, name, children) == [kind |-> kind, name |-> name, children |-> children]
Child(kind, name) == [kind |-> kind, name |-> name]

\* the scope of a line outside every block, and of a line in a block
\* comment; roots is the set of what the document has declared so far
AtRoot(roots) == <<Frame("Proto", undefined, roots)>>
InComment(roots) == <<Frame("Comment", undefined, {})>> \o AtRoot(roots)

\* the scope of a line of the message of the given name
InMessage(name, children, roots) == <<Frame("Message", name, children)>> \o AtRoot(roots)

Cursor(line, word, scope) == [line |-> line, word |-> word, scope |-> scope]

\* where the cursor can be in a text: the line, the word under it and the
\* scope guessScope gives for the line; the line of a one-line block
\* comment is in a Comment scope or in the scope around it
Cursors(t) ==
    CASE t = "keyword" ->
             {Cursor(0, tyString, InMessage(tyString, {}, {Child("Message", tyString)})),
              Cursor(1, tyString, InMessage(tyString, {}, {Child("Message", tyString)})),
              Cursor(1, nmName, InMessage(tyString, {}, {Child("Message", tyString)})),
              Cursor(3, tyString, InComment({Child("Message", tyString)})),
              Cursor(3, tyString, AtRoot({Child("Message", tyString)}))}
      [] t = "client" ->
             {Cursor(0, nmStatusProto, AtRoot({})),
              Cursor(1, nmOther, InMessage(nmOther, {}, {Child("Message", nmOther)})),
              Cursor(2, nmStatus, InMessage(nmOther, {}, {Child("Message", nmOther)})),
              Cursor(2, nmStatusField, InMessage(nmOther, {}, {Child("Message", nmOther)})),
              Cursor(3, tyInt32, InMessage(nmOther, {}, {Child("Message", nmOther)})),
              Cursor(4, nmStatus, InMessage(nmOther, {}, {Child("Message", nmOther)})),
              Cursor(4, tyString, InMessage(nmOther, {}, {Child("Message", nmOther)})),
              Cursor(6, nmStatus, InComment({Child("Message", nmOther)})),
              Cursor(6, nmStatus, AtRoot({Child("Message", nmOther)}))}
      [] t = "inner" ->
             {Cursor(2, nmN, InMessage(nmM, {Child("Message", nmN)}, {Child("Message", nmM)})),
              Cursor(2, nmInner1, InMessage(nmM, {Child("Message", nmN)}, {Child("Message", nmM)}))}
      [] t = "labels" ->
             {Cursor(l, nmBar, InMessage(nmFoo, {}, {Child("Message", nmBar),
                                                     Child("Message", nmFoo)})) :
                 l \in 2..7}
      [] t = "shadow" ->
             {Cursor(9, nmN, InMessage(nmOther, {},
                                       {Child("Message", nmM), Child("Message", nmN),
                                        Child("Message", nmOther)}))}

\* the file an import of status.proto is found as: the first of the files
\* of that text, or -1
ImportFile(w) == First({k + 1 : k \in {k \in 1..Len(w.others) : w.others[k].text = "status"}})

\* getImportHover: the summary of the file, nothing when there is no such
\* file or it cannot be read
ImportHover(w, file) ==
    IF file = -1 THEN NoAnswer
    ELSE IF ~CanRead(w, file) THEN NoAnswer
    ELSE [kind |-> "import", file |-> file]

\* findImportDefinition: the start of the file
ImportDefinition(file) ==
    IF file = -1 THEN NoAnswer
    ELSE [kind |-> "location", file |-> file, line |-> 0, start |-> 0, end |-> 0]

\* what a call has done so far: whether it has listed the candidate files,
\* whether it has read, or tried to read, a file, and the files its last
\* lookup has read or tried to read, in order
Did(searched, read, reads) == [searched |-> searched, read |-> read, reads |-> reads]

\* the call returns
Ends(a, did) ==
    [phase |-> "done", index |-> 0, answer |-> a, target |-> undefined,
     facade |-> [steps |-> <<>>, searched |-> did.searched, read |-> did.read,
                 reads |-> did.reads]]

\* the call enters the loop over the candidate files for a name
Searches(name, steps, did) ==
    [phase |-> "visiting", index |-> 1, answer |-> NoAnswer, target |-> name,
     facade |-> [steps |-> steps, searched |-> TRUE, read |-> did.read, reads |-> <<>>]]

RECURSIVE Advance(_, _, _, _)
\* the call goes on with the steps it has left
Advance(kind, w, steps, did) ==
    IF Len(steps) = 0 THEN Ends(NoAnswer, did)
    ELSE IF steps[1].op = "return" THEN Ends(steps[1].answer, did)
    ELSE IF steps[1].op = "lookup" THEN Searches(steps[1].name, Tail(steps), did)
    ELSE IF kind = "hover"
    THEN Ends(ImportHover(w, ImportFile(w)),
              Did(TRUE, did.read \/ ImportFile(w) # -1, did.reads))
    ELSE IF ImportFile(w) # -1
    THEN Ends(ImportDefinition(ImportFile(w)), Did(TRUE, did.read, did.reads))
    ELSE Advance(kind, w, Tail(steps), Did(TRUE, did.read, did.reads))

\* provideHover down to its first lookup or return, with the scope test
\* left out
HoverCallInComment(scope, text, line, targetWord) ==
    HoverSteps(scope, text, line, targetWord)

\* provideHover down to its first lookup or return
HoverCall(scope, text, line, targetWord) ==
    IF scope[1].kind = "Comment" THEN <<>>
    ELSE HoverSteps(scope, text, line, targetWord)

\* provideDefinition down to its first lookup or return
DefinitionCall(scope, lineText, targetDefinition) ==
    IF scope[1].kind = "Comment" THEN <<>>
    ELSE DefinitionSteps(lineText, targetDefinition)

FacadeRequests(w) ==
    {[kind |-> k, target |-> undefined, line |-> c.line, word |-> c.word, scope |-> c.scope] :
        k \in {"hover", "definition"}, c \in Cursors(w.doc.text)}

FacadeInit ==
    /\ world \in Worlds(FacadeDocTexts, FacadeFileTexts)
    /\ request \in FacadeRequests(world)
    /\ content = FileText(world.doc.text)
    /\ input = NoInput
    /\ phase = "ready"
    /\ message = NoMessage
    /\ reparsed = NoMessage
    /\ files = uniqueFiles(world)
    /\ index = 0
    /\ answer = NoAnswer
    /\ enumInfo = NoEnum
    /\ facade = NoFacade
    /\ stack = <<>>
    /\ currentDepth = 0

\* the state a provider call is left in
Becomes(st) ==
    /\ phase' = st.phase
    /\ index' = st.index
    /\ answer' = st.answer
    /\ request' = [request EXCEPT !.target = st.target]
    /\ facade' = st.facade
    /\ UNCHANGED <<stack, currentDepth, enumInfo, input, content, message, reparsed, world,
                   files>>

ProvideHover ==
    /\ phase = "ready"
    /\ request.kind = "hover"
    /\ Becomes(Advance("hover", world,
                       HoverCall(request.scope, content, request.line, request.word),
                       Did(FALSE, FALSE, <<>>)))

ProvideDefinition ==
    /\ phase = "ready"
    /\ request.kind = "definition"
    /\ Becomes(Advance("definition", world,
                       DefinitionCall(request.scope,
                                      Split(content, "\n")[request.line + 1],
                                      request.word),
                       Did(FALSE, FALSE, <<>>)))

\* what one pass of a lookup's loop leaves: the call ends, or the loop
\* goes on
Visited(st, steps, reads) ==
    IF st.phase = "done" THEN Ends(st.answer, Did(TRUE, TRUE, reads))
    ELSE [phase |-> "visiting", index |-> st.index, answer |-> NoAnswer,
          target |-> request.target,
          facade |-> [steps |-> steps, searched |-> TRUE, read |-> TRUE,
                      reads |-> reads]]

\* one pass of the loop of getMessageOrEnumInfo within provideHover
HoverLookup ==
    /\ phase = "visiting"
    /\ request.kind = "hover"
    /\ index <= Len(files)
    /\ Becomes(Visited(HoverStep(world, request.target, files, index), facade.steps,
                       Append(facade.reads, files[index])))

\* getMessageOrEnumInfo found nothing: provideHover goes on
HoverLookupMissed ==
    /\ phase = "visiting"
    /\ request.kind = "hover"
    /\ index > Len(files)
    /\ Becomes(Advance("hover", world, facade.steps,
                       Did(facade.searched, facade.read, facade.reads)))

\* one pass of the loop of findEnumOrMessageDefinition within
\* provideDefinition
DefinitionLookup ==
    /\ phase = "visiting"
    /\ request.kind = "definition"
    /\ index <= Len(files)
    /\ Becomes(Visited(DefinitionStep(world, request.target, files, index), facade.steps,
                       Append(facade.reads, files[index])))

\* findEnumOrMessageDefinition found nothing: provideDefinition goes on
DefinitionLookupMissed ==
    /\ phase = "visiting"
    /\ request.kind = "definition"
    /\ index > Len(files)
    /\ Becomes(Advance("definition", world, facade.steps,
                       Did(facade.searched, facade.read, facade.reads)))

FacadeNext ==
    \/ ProvideHover
    \/ ProvideDefinition
    \/ HoverLookup
    \/ HoverLookupMissed
    \/ DefinitionLookup
    \/ DefinitionLookupMissed

FacadeSpec == FacadeInit /\ [][FacadeNext]_vars

-----------------------------------------------------------------------------
(***************************************************************************)
(* CandidateSpec: the provider calls over worlds in which a file is        *)
(* listed more than once: the document under a search root, a file both    *)
(* imported and under a root, a file under two overlapping roots.          *)
(***************************************************************************)

\* the ways a file other than the document is reached
Reaches ==
    {[via |-> "import", root |-> 1], [via |-> "both", root |-> 3]}
    \cup [via : {"scan"}, root : {1, 2, 3}]

CandidateWorlds ==
    {[doc |-> d, others |-> o] :
        d \in [text : {"client"}, readable : {TRUE}, root : 0..3],
        o \in UNION {[1..n -> {[text |-> t, readable |-> TRUE, via |-> r.via,
                                root |-> r.root] :
                                   t \in {"status", "plain"}, r \in Reaches}] :
                        n \in 0..MaxOthers}}

CandidateRequests ==
    {r \in FacadeRequests([doc |-> [text |-> "client"]]) :
        r.word = nmStatus /\ r.scope[1].kind # "Comment"}

CandidateInit ==
    /\ world \in CandidateWorlds
    /\ request \in CandidateRequests
    /\ content = FileText(world.doc.text)
    /\ input = NoInput
    /\ phase = "ready"
    /\ message = NoMessage
    /\ reparsed = NoMessage
    /\ files = uniqueFiles(world)
    /\ index = 0
    /\ answer = NoAnswer
    /\ enumInfo = NoEnum
    /\ facade = NoFacade
    /\ stack = <<>>
    /\ currentDepth = 0

CandidateSpec == CandidateInit /\ [][FacadeNext]_vars

(* Field lines: message Foo with one field line, which the cursor is on    *)
(* the name of                                                             *)

tyDotted == <<"a",".","b",".","B","a","r">>
tyMap == <<"m","a","p","<","s","t","r","i","n","g",","," ","B","a","r",">">>
tyMapTight == <<"m","a","p","<","s","t","r","i","n","g",",","B","a","r",">">>
tyMapLoose == <<"m","a","p"," ","<"," ","s","t","r","i","n","g"," ",","," ","a",".","B","a","r"," ",">">>
nmEmployees == <<"e","m","p","l","o","y","e","e","s">>

FieldTypes == {tyInt32, nmBar, tyDotted, tyMap, tyMapTight, tyMapLoose}

\* the field lines drawn: with or without a label, of a plain, a dotted or
\* a map type, with or without a trailing comment
FieldInputs ==
    {[kind |-> "field", label |-> l, type |-> t, name |-> n, tag |-> g,
      number |-> parseInt(g), note |-> c] :
        l \in {undefined, kwOptional, kwRequired, kwRepeated},
        t \in FieldTypes,
        n \in {<<"x">>, nmName, nmEmployees},
        g \in {<<"2">>, <<"1", "0">>},
        c \in {undefined, txNote}}

FieldInit ==
    /\ input \in FieldInputs
    /\ content = Join(<<FooOpener>> \o Indent(<<FieldLine(input)>>) \o << <<"}">> >>, NL)
    /\ phase = "ready"
    /\ message = NoMessage
    /\ reparsed = NoMessage
    /\ world = NoWorld
    /\ request = [kind |-> "hover", target |-> input.name, line |-> 1]
    /\ files = <<>>
    /\ index = 0
    /\ answer = NoAnswer
    /\ enumInfo = NoEnum
    /\ facade = NoFacade
    /\ stack = <<>>
    /\ currentDepth = 0

\* provideHover of src/src/proto3Hover.ts comes to its field-name test with
\* the cursor on the name
TestFieldName ==
    /\ phase = "ready"
    /\ answer' = [kind |-> "fieldName",
                  accepted |-> fieldRegex(Split(content, "\n")[request.line + 1],
                                          request.target)]
    /\ phase' = "tested"
    /\ UNCHANGED <<stack, currentDepth, facade, enumInfo, input, content, message, reparsed, world, request,
                   files, index>>

FieldNext == TestFieldName \/ ParseMessage

FieldSpec == FieldInit /\ [][FieldNext]_vars

-----------------------------------------------------------------------------
(* Comments: a message or an enum whose body is a run of comment lines,    *)
(* lines that are neither comments nor fields, and fields                  *)

\* how many lines the bodies drawn for the comments have at most
MaxRun == 3

MessageRunNames ==
    {"comment", "second", "blank", "braces", "option", "nested", "nested1", "field",
     "noted"}
EnumRunNames == {"comment", "second", "blank", "brace", "option", "red", "blue"}

CommentInputs ==
    {[items |-> it, prelude |-> "none", layout |-> "block", target |-> "message"] :
        it \in UNION {[1..n -> MessageRunNames] : n \in 0..MaxRun}}
    \cup {[items |-> it, prelude |-> "none", layout |-> "block", target |-> "enum"] :
             it \in UNION {[1..n -> EnumRunNames] : n \in 0..MaxRun}}

CommentInit ==
    /\ input \in CommentInputs
    /\ content = IF input.target = "message" THEN Render(input) ELSE RenderEnum(input)
    /\ phase = "ready"
    /\ message = NoMessage
    /\ reparsed = NoMessage
    /\ world = NoWorld
    /\ request = NoRequest
    /\ files = <<>>
    /\ index = 0
    /\ answer = NoAnswer
    /\ enumInfo = NoEnum
    /\ facade = NoFacade
    /\ stack = <<>>
    /\ currentDepth = 0

CommentNext == ParseMessage \/ ParseEnum

CommentSpec == CommentInit /\ [][CommentNext]_vars

-----------------------------------------------------------------------------
(* What a parse of message Foo should yield, read off the description      *)

\* whether the text has as many opening as closing braces
Balanced(text) == CountChar(text, "{") = CountChar(text, "}")

\* whether the item is a field line with a decimal tag
IsFieldItem(n) == ItemOf(n).kind = "field" /\ IsDecimal(ItemOf(n).tag)

RECURSIVE PrecedingComments(_, _)
\* the texts of the run of standalone comment lines that ends just before
\* item k
PrecedingComments(items, k) ==
    IF k > 1 /\ ItemOf(items[k - 1]).kind = "comment"
    THEN Append(PrecedingComments(items, k - 1), ItemOf(items[k - 1]).name)
    ELSE <<>>

\* the comment of the field written as item k: the standalone comments just
\* before it, then its trailing comment
ExpectedComment(items, k) ==
    JoinAll(PrecedingComments(items, k)
            \o (IF ItemOf(items[k]).note # undefined
                THEN <<ItemOf(items[k]).note>> ELSE <<>>))

ExpectedField(items, k) ==
    [name |-> ItemOf(items[k]).name,
     type |-> ItemOf(items[k]).type,
     number |-> ItemOf(items[k]).number,
     label |-> ItemOf(items[k]).label,
     comment |-> ExpectedComment(items, k)]

RECURSIVE ExpectedFieldsFrom(_, _)
ExpectedFieldsFrom(items, k) ==
    IF k > Len(items) THEN <<>>
    ELSE (IF IsFieldItem(items[k]) THEN <<ExpectedField(items, k)>> ELSE <<>>)
         \o ExpectedFieldsFrom(items, k + 1)

\* one entry per field line with a decimal tag among the items, in order
ExpectedFields(items) == ExpectedFieldsFrom(items, 1)

RECURSIVE ExpectedNestedFrom(_, _)
ExpectedNestedFrom(items, k) ==
    IF k > Len(items) THEN <<>>
    ELSE (IF ItemOf(items[k]).kind = "message"
          THEN <<[name |-> ItemOf(items[k]).name,
                  fields |-> ExpectedFields(ItemOf(items[k]).body)]>>
          ELSE <<>>)
         \o ExpectedNestedFrom(items, k + 1)

\* one entry per message declared among the items, with its own fields
ExpectedNested(items) == ExpectedNestedFrom(items, 1)

\* the names and fields of the entries of a nestedMessages sequence
NamesAndFields(nested) ==
    [k \in 1..Len(nested) |-> [name |-> nested[k].name, fields |-> nested[k].fields]]

\* the description with every field line whose tag is no decimal number
\* replaced by an empty line
WithoutBadTags(in) ==
    [in EXCEPT !.items = [k \in 1..Len(in.items) |->
                             IF ItemOf(in.items[k]).kind = "field"
                                /\ ~IsDecimal(ItemOf(in.items[k]).tag)
                             THEN "blank" ELSE in.items[k]]]

HasItem(n) == \E k \in 1..Len(input.items) : input.items[k] = n

-----------------------------------------------------------------------------
(* Properties of parseMessage                                              *)

\* C1: for a brace-balanced message Foo, parseMessage returns in fields
\* exactly one entry per depth-0 field line of the body, in textual order,
\* carrying that line's name, type, tag number, label and comment, and
\* nothing else.
C1_FieldsExactlyTheFieldLines ==
    (phase # "ready" /\ Balanced(content))
        => message.fields = ExpectedFields(input.items)

\* C2: nestedMessages holds exactly one entry per message declared directly
\* in the body, each entry's fields are that nested message's own fields,
\* and the outer fields hold none of the nested messages' fields.
C2_NestedMessagesExact ==
    (phase # "ready" /\ Balanced(content))
        => /\ NamesAndFields(message.nestedMessages) = ExpectedNested(input.items)
           /\ \A k \in 1..Len(message.fields) :
                  message.fields[k].name \notin {<<"v">>, <<"d">>}

\* C3: parsing the recorded rawSource again for the same name yields the
\* same fields and the same nested types as parsing the document.
C3_IdempotentOverRawSource ==
    phase = "reparsed"
        => /\ reparsed.fields = message.fields
           /\ reparsed.nestedMessages = message.nestedMessages
           /\ reparsed.nestedEnums = message.nestedEnums

\* C3 happens: a document with text before the message is parsed into a
\* field and a nested message, and its rawSource has been parsed again
C3_Witness ==
    /\ phase = "reparsed"
    /\ input.prelude = "other"
    /\ Len(message.fields) > 0
    /\ Len(message.nestedMessages) > 0
    /\ Len(message.rawSource) < Len(content)

\* C4: a field line whose tag is no decimal number is not among the fields
\* returned, and the fields returned are those returned when the line is
\* empty: every field line after it is parsed as it is without it.
C4_BadTagLineDropped ==
    (phase # "ready" /\ HasItem("badtag"))
        => /\ \A k \in 1..Len(message.fields) : message.fields[k].name # <<"z">>
           /\ message.fields
                  = parseMessage(nmFoo, Render(WithoutBadTags(input))).fields

\* C4 happens: a field line with a decimal tag follows the line with the
\* tag abc and is returned
C4_Witness ==
    /\ phase = "parsed"
    /\ input.items = <<"badtag", "noted">>
    /\ Len(message.fields) = 1
    /\ message.fields[1].name = <<"y">>
    /\ message.fields[1].number = 2

-----------------------------------------------------------------------------
(* What a lookup should answer, read off the descriptions of the texts     *)

NestedTexts == {"nestedBlock", "nestedLine"}

\* the last part of a dotted name
LastPart(target) == Split(target, ".")[Len(Split(target, "."))]

\* where a text declares a name
DeclaredRange(t, name) ==
    LET d == CHOOSE d \in Declarations(t) : d.name = name
    IN  [line |-> d.line, start |-> d.start, end |-> d.end]

\* the value of enum Color with the given name
ExpectedValue(word) ==
    IF word = nmRED THEN [name |-> nmRED, number |-> 0, comment |-> txPrimary]
    ELSE [name |-> nmBLUE, number |-> 1, comment |-> undefined]

\* the files of a world reached the given way
Via(w, via) == {k + 1 : k \in {k \in 1..Len(w.others) : w.others[k].via = via}}

\* the candidate at position j can be read and the search of its text for
\* the target succeeds
FoundByDefinition(j) ==
    /\ CanRead(world, files[j])
    /\ DefinitionInFile(files[j], Split(FileText(TextOfFile(world, files[j])), "\n"),
                        request.target).kind # "none"

FoundByHover(j) ==
    /\ CanRead(world, files[j])
    /\ InfoInFile(FileText(TextOfFile(world, files[j])), request.target).kind # "none"

-----------------------------------------------------------------------------
(* The claims about hover and definition lookup                            *)

\* C5: a hover on the name of an enum value, on the line of that value,
\* returns the enum's name with that value's own name, number and comment:
\* for enum Color with RED = 0 (comment "primary") and BLUE = 1, BLUE comes
\* without comment, in the block layout and in the layout of the claim's
\* text, where the enum opens on RED's line and closes on BLUE's.
C5_EnumValueHover ==
    (phase = "done" /\ request.kind = "value")
        => answer = [kind |-> "value", enum |-> nmColor,
                     value |-> ExpectedValue(request.target)]

\* C6: when a readable imported file and a readable file found only by the
\* scan both define message Status and the requesting document does not,
\* definition lookup of Status returns a location in an imported file that
\* defines it.
C6_ImportBeforeScan ==
    ( /\ phase = "done"
      /\ request.target = nmStatus
      /\ world.doc.text # "status"
      /\ \E f \in Via(world, "import") :
             TextOfFile(world, f) = "status" /\ CanRead(world, f)
      /\ \E f \in Via(world, "scan") :
             TextOfFile(world, f) = "status" /\ CanRead(world, f) )
        => /\ answer.kind = "location"
           /\ answer.file \in Via(world, "import")
           /\ TextOfFile(world, answer.file) = "status"

\* C7: when every candidate can be read and one of them holds package a.b
\* with message N declared inside message M, definition lookup of a.b.M.N
\* and of M.N returns the location of N's declaration in such a file.
C7_QualifiedResolution ==
    ( /\ phase = "done"
      /\ request.target \in {tgQualified, tgRelative}
      /\ \A k \in 1..Len(files) : CanRead(world, files[k])
      /\ \E k \in 1..Len(files) : TextOfFile(world, files[k]) \in NestedTexts )
        => /\ answer.kind = "location"
           /\ TextOfFile(world, answer.file) \in NestedTexts
           /\ answer.range = DeclaredRange(TextOfFile(world, answer.file), nmN)

\* C8: the range of every location definition lookup returns covers exactly
\* the declared name after the keyword on the declaration's line: it has
\* the name's length, stands where the description puts the name, and the
\* characters of the line inside it are the name.
C8_RangeIsNameToken ==
    answer.kind = "location"
        => /\ answer.range =
                  DeclaredRange(TextOfFile(world, answer.file), LastPart(request.target))
           /\ answer.range.end - answer.range.start = Len(LastPart(request.target))
           /\ Substring(Split(FileText(TextOfFile(world, answer.file)), "\n")
                            [answer.range.line + 1],
                        answer.range.start, answer.range.end)
                  = LastPart(request.target)

\* C9: definition lookup over a candidate list with a file that cannot be
\* read does not fail, and it answers what the first readable candidate in
\* which the search succeeds gives, undefined when there is none.
C9_DefinitionSkipsUnreadable ==
    (phase = "done" /\ \E u \in 1..Len(files) : ~CanRead(world, files[u]))
        => /\ answer.kind # "threw"
           /\ \A j \in 1..Len(files) :
                  (FoundByDefinition(j) /\ \A k \in 1..(j - 1) : ~FoundByDefinition(k))
                      => answer = DefinitionInFile(files[j],
                                      Split(FileText(TextOfFile(world, files[j])), "\n"),
                                      request.target)
           /\ (\A j \in 1..Len(files) : ~FoundByDefinition(j)) => answer = NoAnswer

\* C10: getMessageOrEnumInfo does not fail on a candidate that cannot be
\* read: it answers the info the first readable candidate in which the
\* search succeeds gives, undefined when there is none.
C10_HoverSkipsUnreadable ==
    (phase = "done" /\ answer.kind # "value")
        => /\ answer.kind # "threw"
           /\ \A j \in 1..Len(files) :
                  (FoundByHover(j) /\ \A k \in 1..(j - 1) : ~FoundByHover(k))
                      => /\ answer.kind = "info"
                         /\ answer.file = files[j]
                         /\ answer.info = InfoInFile(FileText(TextOfFile(world, files[j])),
                                                     request.target).info
           /\ (\A j \in 1..Len(files) : ~FoundByHover(j)) => answer = NoAnswer

\* C10 happens: the loop has passed a candidate that cannot be read and
\* returned the info found in a later one.
C10_Witness ==
    /\ phase = "done"
    /\ answer.kind = "info"
    /\ \E u \in 1..Len(files) :
           /\ ~CanRead(world, files[u])
           /\ \E j \in (u + 1)..Len(files) : answer.file = files[j]

-----------------------------------------------------------------------------
(* The claims about the parsers on enum documents                          *)

-----------------------------------------------------------------------------
(* More claims about parseMessage on a document of message Foo             *)

\* C12: whenever parseMessage returns a rawSource that is not empty, the
\* rawSource holds as many opening as closing braces, the leading comment
\* lines it begins with included.
C12_RawSourceBalanced ==
    (phase # "ready" /\ message.rawSource # <<>>)
        => CountChar(message.rawSource, "{") = CountChar(message.rawSource, "}")


-----------------------------------------------------------------------------
\* C13: when the scope of the cursor line is of kind Comment, provideHover
\* and provideDefinition return nothing, and the call neither lists the
\* candidate files nor reads a file.
C13_CommentScopeSilent ==
    request.scope[1].kind = "Comment"
        => /\ phase \in {"ready", "done"}
           /\ answer = NoAnswer
           /\ ~facade.searched
           /\ ~facade.read

\* provideHover has returned for a cursor in a comment, with other files
\* there to be searched
C13_Witness ==
    /\ phase = "done"
    /\ request.kind = "hover"
    /\ request.scope[1].kind = "Comment"
    /\ request.word = nmStatus
    /\ Len(world.others) = 2
    /\ world.others[1].readable
    /\ answer = NoAnswer

\* C14: when the word under the cursor is a primitive type keyword and the
\* scope is not Comment, provideHover returns the keyword's documentation
\* card and provideDefinition returns nothing, and neither lists the
\* candidate files or reads a file.
C14_PrimitiveWithoutSearch ==
    (isTypePrimitive(request.word) /\ request.scope[1].kind # "Comment")
        => /\ ~facade.searched
           /\ ~facade.read
           /\ phase = "done"
                  => answer = IF request.kind = "hover" THEN Card(request.word)
                              ELSE NoAnswer

-----------------------------------------------------------------------------
(* What the description of an enum document says its values are            *)

RECURSIVE ExpectedValuesFrom(_, _)
ExpectedValuesFrom(items, k) ==
    IF k > Len(items) THEN <<>>
    ELSE (IF IsFieldItem(items[k])
          THEN <<[name |-> ItemOf(items[k]).name,
                  number |-> ItemOf(items[k]).number,
                  comment |-> ExpectedComment(items, k)]>>
          ELSE <<>>)
         \o ExpectedValuesFrom(items, k + 1)

\* one entry per value line with a decimal number among the items, in order
ExpectedValues(items) == ExpectedValuesFrom(items, 1)

\* the enum is written out whole
WholeEnum == input.layout \in {"block", "inFoo"}

\* C15: parseEnum records one value, in textual order, for every line
\* `NAME = number;` of the enum body, with or without a trailing comment;
\* a value's comment is the standalone comment lines just before it and
\* its trailing comment, and undefined when it has neither.
C15_EveryValueLineRecorded ==
    (phase \in {"enum", "enumTs"} /\ WholeEnum /\ ~HasItem("unknown"))
        => enumInfo.values = ExpectedValues(input.items)

\* C16: a value line whose number is a negative decimal, `UNKNOWN = -1;`,
\* is recorded by parseEnum as a value with that number, as a line with a
\* non-negative number is.
C16_NegativeNumberRecorded ==
    (phase = "enum" /\ WholeEnum /\ HasItem("unknown"))
        => \E j \in 1..Len(enumInfo.values) :
               /\ enumInfo.values[j].name = nmUNKNOWN
               /\ enumInfo.values[j].number = ItemOf("unknown").number

\* C17: every field line with a map type, with a label or with a plain
\* type is accepted by the field-name test of provideHover when the word
\* under the cursor is the field's name, and by the field-line grammar of
\* parseMessage, which records a field for it.
C17_FieldLineAccepted ==
    /\ phase = "tested" => answer.accepted
    /\ phase = "parsed"
           => /\ Len(message.fields) = 1
              /\ message.fields[1].name = input.name
              /\ message.fields[1].number = input.number

\* a labelled map field with a trailing comment has been tested
C17_Witness ==
    /\ phase = "tested"
    /\ input.type = tyMapLoose
    /\ input.label = kwRepeated
    /\ input.note = txNote
    /\ answer.accepted

\* the comments of a sequence of fields or values
CommentsOf(infos) == [j \in 1..Len(infos) |-> infos[j].comment]

\* C18: in parseMessage and parseEnum the comment of a field or value is
\* the uninterrupted run of standalone comment lines just before it, in
\* order, then its inline comment, joined by newlines; a blank line, a
\* brace-only line, a nested opener or any other line that is no field
\* empties the pending comments, so no comment is attached across such a
\* line or to a second field.
C18_CommentAccumulation ==
    /\ (phase = "parsed" /\ input.target = "message")
           => CommentsOf(message.fields) = CommentsOf(ExpectedFields(input.items))
    /\ (phase = "enum" /\ input.target = "enum")
           => CommentsOf(enumInfo.values) = CommentsOf(ExpectedValues(input.items))

\* a comment line, a nested opener and a field with an inline comment: the
\* field's comment is the inline comment alone
C18_Witness ==
    /\ phase = "parsed"
    /\ input.target = "message"
    /\ input.items = <<"comment", "nested1", "noted">>
    /\ Len(message.fields) = 1
    /\ message.fields[1].comment = txNote

\* where a file first comes from: 0 the document itself, 1 an import of the
\* document, 2 the first search root, 3 the second
Origin(w, f) ==
    IF f = 1 THEN 0
    ELSE IF w.others[f - 1].via \in {"import", "both"} THEN 1
    ELSE IF w.others[f - 1].root \in {1, 3} THEN 2
    ELSE 3

\* C19: in one lookup the document is the first candidate, the candidates
\* are every file of the imports and of the search roots, each once, those
\* of the imports before those of the first root before those of the
\* second, and the files read are a prefix of that list, in its order, so
\* that none is read twice.
C19_CandidateOrder ==
    /\ files[1] = 1
    /\ {files[i] : i \in 1..Len(files)} = 1..(Len(world.others) + 1)
    /\ \A i, j \in 1..Len(files) :
           i < j => /\ files[i] # files[j]
                    /\ Origin(world, files[i]) <= Origin(world, files[j])
    /\ Len(facade.reads) <= Len(files)
    /\ facade.reads = SubSeq(files, 1, Len(facade.reads))

\* the document under both roots, a file imported and under both roots, the
\* declaring file under the second root only: all three read, once each
C19_Witness ==
    /\ phase = "done"
    /\ request.kind = "definition"
    /\ world.doc.root = 3
    /\ Len(world.others) = 2
    /\ world.others[1] = [text |-> "plain", readable |-> TRUE, via |-> "both", root |-> 3]
    /\ world.others[2] = [text |-> "status", readable |-> TRUE, via |-> "scan", root |-> 2]
    /\ facade.reads = <<1, 2, 3>>
    /\ answer.kind = "location"

\* C20: a bare name is resolved to the root-level declaration of that name
\* even when a nested declaration of the same name comes earlier in the
\* file: the hover of N in `N inner = 3;` gives the root-level message N,
\* with its field b, and the definition of N is the line of the root-level
\* `message N {`.
C20_RootLevelDeclaration ==
    (phase = "done" /\ world.doc.text = "shadow" /\ world.doc.readable) =>
        IF request.kind = "hover"
        THEN /\ answer.kind = "info"
             /\ answer.info.name = nmN
             /\ Len(answer.info.fields) = 1
             /\ answer.info.fields[1].name = <<"b">>
             /\ answer.info.fields[1].number = 2
        ELSE /\ answer.kind = "location"
             /\ answer.file = 1
             /\ answer.range = [line |-> 5, start |-> 8, end |-> 9]

\* C21: provideDefinition takes every field line `[label] type name = tag
\* [options];` for a reference to its type: with the cursor on Bar in each
\* field line of message Foo, whatever the label and with or without
\* options, it looks Bar up and returns the `message Bar` of line 0.
C21_FieldLineIsTypeReference ==
    (/\ phase = "done"
     /\ request.kind = "definition"
     /\ world.doc.text = "labels"
     /\ world.doc.readable) =>
        /\ facade.searched
        /\ answer.kind = "location"
        /\ answer.file = 1
        /\ answer.range = [line |-> 0, start |-> 8, end |-> 11]

\* the first of the tests comment scope, primitive keyword, import line
\* that applies to a request, "later" when none of the three does
FirstTest(r, text) ==
    IF r.scope[1].kind = "Comment" THEN "comment"
    ELSE IF isTypePrimitive(r.word) THEN "primitive"
    ELSE IF importRegExp(Split(text, "\n")[r.line + 1], r.word) THEN "import"
    ELSE "later"

\* C22: provideHover returns the payload of the first test, in the order
\* comment scope, primitive keyword, import line, the later tests, that
\* yields one, and evaluates no later test: nothing in a comment, the
\* keyword's card on a primitive keyword, the import's hover (or nothing)
\* on an import line without a type lookup, and a type, value or nothing
\* from the later tests.
C22_FirstTestDecides ==
    (phase = "done" /\ request.kind = "hover") =>
        CASE FirstTest(request, content) = "comment" ->
                 answer = NoAnswer /\ ~facade.searched
          [] FirstTest(request, content) = "primitive" ->
                 answer = Card(request.word) /\ ~facade.searched
          [] FirstTest(request, content) = "import" ->
                 answer.kind \in {"import", "none"} /\ facade.reads = <<>>
          [] OTHER ->
                 answer.kind \in {"info", "value", "none"}

-----------------------------------------------------------------------------
(* Proto3Configuration: the search roots taken from the protoc options     *)

dashProtoPath == <<"-","-","p","r","o","t","o","_","p","a","t","h">>
dashProtoPathEq == <<"-","-","p","r","o","t","o","_","p","a","t","h","=">>
dashI == <<"-","I">>

startsWith(s, p) == StartsWithAt(s, 0, p)

isProtoPathOption(option) == startsWith(option, dashProtoPath) \/ startsWith(option, dashI)

\* null is written undefined
extractProtoPathValue(option) ==
    IF startsWith(option, dashProtoPathEq)
    THEN Substring(option, Len(dashProtoPathEq), Len(option))
    ELSE IF startsWith(option, dashI) /\ Len(option) > 2
    THEN Substring(option, 2, Len(option))
    ELSE undefined

\* what the three collections of getMergedProtocOptions start as
NoneMerged == [mergedOptions |-> <<>>, seenProtoPaths |-> {}, seenOtherOptions |-> {}]

RECURSIVE processOptions(_, _)
\* an empty pathValue is falsy, as null is
processOptions(options, m) ==
    IF Len(options) = 0 THEN m
    ELSE processOptions(
             Tail(options),
             IF isProtoPathOption(options[1])
             THEN IF /\ extractProtoPathValue(options[1]) # undefined
                     /\ extractProtoPathValue(options[1]) \notin m.seenProtoPaths
                  THEN [m EXCEPT !.mergedOptions = Append(@, options[1]),
                                 !.seenProtoPaths = @ \cup {extractProtoPathValue(options[1])}]
                  ELSE m
             ELSE IF options[1] \notin m.seenOtherOptions
                  THEN [m EXCEPT !.mergedOptions = Append(@, options[1]),
                                 !.seenOtherOptions = @ \cup {options[1]}]
                  ELSE m)

\* the options of the workspace, then those of the current folder
getMergedProtocOptions(workspaceOptions, currentOptions) ==
    processOptions(currentOptions, processOptions(workspaceOptions, NoneMerged)).mergedOptions

getProtoPathOptions(merged) == SelectSeq(merged, isProtoPathOption)

RECURSIVE PathsOfOptions(_, _)
\* the loop of getAllProtoPathsForImport over protoPathOptions from i on
\* (0-based)
PathsOfOptions(protoPathOptions, i) ==
    IF i >= Len(protoPathOptions) THEN <<>>
    ELSE IF startsWith(protoPathOptions[i + 1], dashProtoPathEq)
    THEN (IF Len(protoPathOptions[i + 1]) > Len(dashProtoPathEq)
          THEN <<Substring(protoPathOptions[i + 1], Len(dashProtoPathEq),
                           Len(protoPathOptions[i + 1]))>>
          ELSE <<>>)
         \o PathsOfOptions(protoPathOptions, i + 1)
    ELSE IF startsWith(protoPathOptions[i + 1], dashI) /\ Len(protoPathOptions[i + 1]) > 2
    THEN <<Substring(protoPathOptions[i + 1], 2, Len(protoPathOptions[i + 1]))>>
         \o PathsOfOptions(protoPathOptions, i + 1)
    ELSE IF /\ protoPathOptions[i + 1] = dashI
            /\ i + 1 < Len(protoPathOptions)
            /\ ~startsWith(protoPathOptions[i + 2], <<"-">>)
    THEN <<protoPathOptions[i + 2]>> \o PathsOfOptions(protoPathOptions, i + 2)
    ELSE PathsOfOptions(protoPathOptions, i + 1)

\* path.isAbsolute on a POSIX host
isAbsolute(searchPath) == startsWith(searchPath, <<"/">>)

\* path.resolve of a path against the workspace root, for paths without
\* `.`, `..` or doubled or trailing slashes: the absolute path itself, the
\* root joined to the relative one
resolvePath(workspaceRoot, searchPath) ==
    IF isAbsolute(searchPath) THEN searchPath
    ELSE workspaceRoot \o <<"/">> \o searchPath

\* the second loop of getAllProtoPathsForImport: each path resolved, the
\* first occurrence of each kept
uniquePaths(workspaceRoot, paths) ==
    Unique([k \in 1..Len(paths) |-> resolvePath(workspaceRoot, paths[k])])

\* the workspace root first, then the paths of the options
getAllProtoPathsForImport(workspaceRoot, workspaceOptions, currentOptions) ==
    uniquePaths(workspaceRoot,
                <<workspaceRoot>>
                \o PathsOfOptions(getProtoPathOptions(
                       getMergedProtocOptions(workspaceOptions, currentOptions)), 0))

-----------------------------------------------------------------------------
(* OptionsSpec: getAllProtoPathsForImport over the configured options      *)

MaxOptions == 3

wsRoot == <<"/","w","s">>
opLong == <<"-","-","p","r","o","t","o","_","p","a","t","h","=","i","n","c">>
opShort == <<"-","I","l","i","b">>
opAbsolute == <<"-","I","/","a","b","s">>
opOther == <<"-","-","j","a","v","a","_","o","u","t","=","g","e","n">>
argProtos == <<"p","r","o","t","o","s">>

Options == {opLong, opShort, opAbsolute, opOther, dashI, argProtos}

\* the options of the current folder, and those of the workspace: none, or
\* a root also named by the folder
OptionsInputs ==
    {[kind |-> "options", workspace |-> w, current |-> c] :
        w \in {<<>>, <<opShort>>},
        c \in UNION {[1..n -> Options] : n \in 0..MaxOptions}}

OptionsInit ==
    /\ input \in OptionsInputs
    /\ content = <<>>
    /\ phase = "ready"
    /\ message = NoMessage
    /\ reparsed = NoMessage
    /\ world = NoWorld
    /\ request = NoRequest
    /\ files = <<>>
    /\ index = 0
    /\ answer = NoAnswer
    /\ enumInfo = NoEnum
    /\ facade = NoFacade
    /\ stack = <<>>
    /\ currentDepth = 0

GetAllProtoPathsForImport ==
    /\ phase = "ready"
    /\ input.kind = "options"
    /\ answer' = [kind |-> "paths",
                  paths |-> getAllProtoPathsForImport(wsRoot, input.workspace, input.current)]
    /\ phase' = "done"
    /\ UNCHANGED <<stack, currentDepth, facade, enumInfo, input, content, message, reparsed, world, request,
                   files, index>>

OptionsNext == GetAllProtoPathsForImport

OptionsSpec == OptionsInit /\ [][OptionsNext]_vars

\* C23: a bare -I followed by an argument that does not begin with `-`
\* names a search root: the argument, resolved against the workspace root,
\* is among the roots returned, as the path of -I<path> and of
\* --proto_path=<path> is.
C23_BareDashIPath ==
    phase = "done" =>
        \A k \in 1..(Len(input.current) - 1) :
            (input.current[k] = dashI /\ ~startsWith(input.current[k + 1], <<"-">>))
                => \E j \in 1..Len(answer.paths) :
                       answer.paths[j] = resolvePath(wsRoot, input.current[k + 1])

-----------------------------------------------------------------------------
(* ConfigurationResolver: ${...} in a configuration value                  *)

\* the position of the first occurrence of t in s at or after i, or -1
IndexFrom(s, t, i) == First({k \in i..(Len(s) - Len(t)) : StartsWithAt(s, k, t)})

dollarBrace == <<"$","{">>
dollarConfig == <<"$","{","c","o","n","f","i","g",".">>
envDot == <<"e","n","v",".">>
nmWorkspaceRoot == <<"w","o","r","k","s","p","a","c","e","R","o","o","t">>

\* the callback of the first replace of resolveString: this[name] is a
\* string for workspaceRoot and for the environment variables that are set,
\* of which the values drawn name none
Variable(match, name) ==
    IF name = nmWorkspaceRoot THEN wsRoot
    ELSE IF IndexOf(match, envDot) > 0 THEN <<>>
    ELSE match

RECURSIVE ReplaceVariables(_, _)
\* value.replace(/\$\{(.*?)\}/g, ...) from position i on
ReplaceVariables(value, i) ==
    IF IndexFrom(value, dollarBrace, i) = -1
       \/ IndexOfChar(value, "}", IndexFrom(value, dollarBrace, i) + 2) = -1
    THEN Substring(value, i, Len(value))
    ELSE Substring(value, i, IndexFrom(value, dollarBrace, i))
         \o Variable(Substring(value, IndexFrom(value, dollarBrace, i),
                               IndexOfChar(value, "}", IndexFrom(value, dollarBrace, i) + 2) + 1),
                     Substring(value, IndexFrom(value, dollarBrace, i) + 2,
                               IndexOfChar(value, "}", IndexFrom(value, dollarBrace, i) + 2)))
         \o ReplaceVariables(value,
                IndexOfChar(value, "}", IndexFrom(value, dollarBrace, i) + 2) + 1)

\* a call of resolveString: the first replace done, resolveConfigVariable
\* at the start of its value
Call(value) ==
    [originalValue |-> value, value |-> ReplaceVariables(value, 0), pos |-> 0, out |-> <<>>]

\* the next match of /\$\{config\.(.+?)\}/g in a call's value: where it
\* starts and where its closing brace is, the name having at least one
\* character; start -1 when there is none
NextReference(f) ==
    IF IndexFrom(f.value, dollarConfig, f.pos) = -1
       \/ IndexOfChar(f.value, "}", IndexFrom(f.value, dollarConfig, f.pos)
                                        + Len(dollarConfig) + 1) = -1
    THEN [start |-> -1, close |-> -1]
    ELSE [start |-> IndexFrom(f.value, dollarConfig, f.pos),
          close |-> IndexOfChar(f.value, "}", IndexFrom(f.value, dollarConfig, f.pos)
                                                 + Len(dollarConfig) + 1)]

ReferenceName(f, m) == Substring(f.value, m.start + Len(dollarConfig), m.close)

\* the setting a name stands for: the name has one key here, and a setting
\* that is not set gives the empty string
newValue(settings, name) ==
    IF name \in DOMAIN settings /\ settings[name].set THEN settings[name].value ELSE <<>>

\* the call with a match replaced by a text and the scan moved past it
Replaced(f, m, text) ==
    [f EXCEPT !.out = @ \o Substring(f.value, f.pos, m.start) \o text,
              !.pos = m.close + 1]

\* what a call returns when no match is left
ResolvedString(f) == f.out \o Substring(f.value, f.pos, Len(f.value))

-----------------------------------------------------------------------------
(* ResolveSpec: ConfigurationResolver.resolve of a string, call by call    *)

cvText == <<"x">>
cvRefA == <<"$","{","c","o","n","f","i","g",".","a","}">>
cvRefB == <<"$","{","c","o","n","f","i","g",".","b","}">>
cvTextRefA == <<"x","$","{","c","o","n","f","i","g",".","a","}">>
cvRefARefB == <<"$","{","c","o","n","f","i","g",".","a","}","$","{","c","o","n","f","i","g",".","b","}">>
cvRootRefC == <<"$","{","w","o","r","k","s","p","a","c","e","R","o","o","t","}","/","$","{","c","o","n","f","i","g",".","c","}">>

ConfigValues == {cvText, cvRefA, cvRefB, cvTextRefA, cvRefARefB, cvRootRefC}

\* the settings a and b, each set to one of the values or not set, and the
\* value to resolve
ResolveInputs ==
    {[kind |-> "resolve", value |-> v, settings |-> c] :
        v \in ConfigValues,
        c \in [{<<"a">>, <<"b">>} ->
                  {[set |-> FALSE, value |-> <<>>]}
                  \cup [set : {TRUE}, value : ConfigValues]]}

ResolveInit ==
    /\ input \in ResolveInputs
    /\ content = <<>>
    /\ phase = "ready"
    /\ message = NoMessage
    /\ reparsed = NoMessage
    /\ world = NoWorld
    /\ request = NoRequest
    /\ files = <<>>
    /\ index = 0
    /\ answer = NoAnswer
    /\ enumInfo = NoEnum
    /\ facade = NoFacade
    /\ stack = <<>>
    /\ currentDepth = 0

Top == stack[Len(stack)]

ResolveKeeps ==
    UNCHANGED <<currentDepth, facade, enumInfo, input, content, message, reparsed, world,
                request, files, index>>

\* resolve(value) is called
Resolve ==
    /\ phase = "ready"
    /\ input.kind = "resolve"
    /\ stack' = <<Call(input.value)>>
    /\ phase' = "resolving"
    /\ UNCHANGED answer
    /\ ResolveKeeps

\* the callback of resolveConfigVariable on a reference whose setting is
\* the string being resolved by this call: the reference is dropped
ResolveSelfReference ==
    /\ phase = "resolving"
    /\ NextReference(Top).start # -1
    /\ newValue(input.settings, ReferenceName(Top, NextReference(Top))) = Top.originalValue
    /\ stack' = [stack EXCEPT ![Len(stack)] = Replaced(Top, NextReference(Top), <<>>)]
    /\ UNCHANGED <<phase, answer>>
    /\ ResolveKeeps

\* the callback on any other reference calls resolveString on the
\* setting's value
ResolveReference ==
    /\ phase = "resolving"
    /\ NextReference(Top).start # -1
    /\ newValue(input.settings, ReferenceName(Top, NextReference(Top))) # Top.originalValue
    /\ \A k \in 1..Len(stack) :
           stack[k].originalValue
               # newValue(input.settings, ReferenceName(Top, NextReference(Top)))
    /\ stack' = Append(stack,
                       Call(newValue(input.settings, ReferenceName(Top, NextReference(Top)))))
    /\ UNCHANGED <<phase, answer>>
    /\ ResolveKeeps

\* the same on a value that a call further down the stack is resolving:
\* that call came to this one by what it did with its value, and so does
\* the new one; the calls go on until the stack is exhausted
ResolveReferenceAgain ==
    /\ phase = "resolving"
    /\ NextReference(Top).start # -1
    /\ newValue(input.settings, ReferenceName(Top, NextReference(Top))) # Top.originalValue
    /\ \E k \in 1..Len(stack) :
           stack[k].originalValue
               = newValue(input.settings, ReferenceName(Top, NextReference(Top)))
    /\ phase' = "overflow"
    /\ UNCHANGED <<stack, answer>>
    /\ ResolveKeeps

\* a nested call has no match left: its result replaces the reference in
\* the call below
ResolveReturn ==
    /\ phase = "resolving"
    /\ NextReference(Top).start = -1
    /\ Len(stack) > 1
    /\ stack' = [SubSeq(stack, 1, Len(stack) - 1) EXCEPT
                     ![Len(stack) - 1] =
                         Replaced(stack[Len(stack) - 1], NextReference(stack[Len(stack) - 1]),
                                  ResolvedString(Top))]
    /\ UNCHANGED <<phase, answer>>
    /\ ResolveKeeps

\* the outermost call has no match left: resolve returns
ResolveDone ==
    /\ phase = "resolving"
    /\ NextReference(Top).start = -1
    /\ Len(stack) = 1
    /\ answer' = [kind |-> "resolved", value |-> ResolvedString(Top)]
    /\ stack' = <<>>
    /\ phase' = "done"
    /\ ResolveKeeps

ResolveNext ==
    \/ Resolve
    \/ ResolveSelfReference
    \/ ResolveReference
    \/ ResolveReferenceAgain
    \/ ResolveReturn
    \/ ResolveDone

ResolveSpec == ResolveInit /\ [][ResolveNext]_vars

\* C24: resolve comes to an end on every configuration: no call of
\* resolveString is made on a string that a call in progress is already
\* resolving, which is what an expansion without end consists of.
C24_ResolveTerminates == phase # "overflow"

-----------------------------------------------------------------------------
(* getContainingMessage, line by line                                      *)

\* the pass of the loop over one line: the push of a message opener with
\* the depth before the line, the braces of the line without its comment,
\* then the pops
PushOpener(messageStack, codeLine, depth) ==
    IF \E k \in 0..(Len(codeLine) - 1) : OpenerMatches(codeLine, k, kwMessage)
    THEN Append(messageStack,
                [name |-> OpenerName(codeLine,
                                     First({k \in 0..(Len(codeLine) - 1) :
                                               OpenerMatches(codeLine, k, kwMessage)}),
                                     kwMessage),
                 depth |-> depth])
    ELSE messageStack

DepthAfter(codeLine, depth) == depth + CountChar(codeLine, "{") - CountChar(codeLine, "}")

RECURSIVE PopClosed(_, _)
PopClosed(messageStack, depth) ==
    IF Len(messageStack) > 0 /\ depth <= messageStack[Len(messageStack)].depth
    THEN PopClosed(SubSeq(messageStack, 1, Len(messageStack) - 1), depth)
    ELSE messageStack

\* what getContainingMessage returns after the loop
ContainingMessageInfo(messageStack, text) ==
    IF Len(messageStack) > 0
    THEN [kind |-> "info", info |-> parseMessage(messageStack[Len(messageStack)].name, text)]
    ELSE NoAnswer

-----------------------------------------------------------------------------
(* ScanSpec: getContainingMessage and getContainingEnum on documents put   *)
(* together from a few kinds of line                                       *)

MaxScan == 5

nmB == <<"B">>
nmC == <<"C">>
nmF == <<"F">>

MessageScanKinds == {"openA", "openB", "openE", "close", "field", "closeOpen"}
EnumScanKinds == {"openE", "inlineF", "value", "close", "closeNote", "openM"}

ScanLine(k) ==
    CASE k = "openA" -> <<"m","e","s","s","a","g","e"," ","A"," ","{">>
      [] k = "openB" -> <<"m","e","s","s","a","g","e"," ","B"," ","{">>
      [] k = "openM" -> <<"m","e","s","s","a","g","e"," ","M"," ","{">>
      [] k = "openE" -> <<"e","n","u","m"," ","E"," ","{">>
      [] k = "inlineF" -> <<"e","n","u","m"," ","F"," ","{"," ","X"," ","="," ","0",";"," ","}">>
      [] k = "close" -> <<"}">>
      [] k = "closeNote" -> <<"}"," ","/","/"," ","E">>
      [] k = "closeOpen" -> <<"}"," ","m","e","s","s","a","g","e"," ","C"," ","{">>
      [] k = "field" -> <<"i","n","t","3","2"," ","a"," ","="," ","1",";"," ","/","/"," ","{">>
      [] k = "value" -> <<"R","E","D"," ","="," ","0",";">>
      [] k = "openN" -> <<"m","e","s","s","a","g","e"," ","N"," ","{">>
      [] k = "fieldX1" -> <<"i","n","t","3","2"," ","x"," ","="," ","1",";">>
      [] k = "fieldX2" -> <<"s","t","r","i","n","g"," ","x"," ","="," ","2",";">>

\* the block a line of a kind opens, if any
Opened(k) ==
    CASE k = "openA" -> <<[type |-> "message", name |-> nmA]>>
      [] k = "openB" -> <<[type |-> "message", name |-> nmB]>>
      [] k = "openM" -> <<[type |-> "message", name |-> nmM]>>
      [] k = "openN" -> <<[type |-> "message", name |-> nmN]>>
      [] k = "closeOpen" -> <<[type |-> "message", name |-> nmC]>>
      [] k = "openE" -> <<[type |-> "enum", name |-> nmE]>>
      [] OTHER -> <<>>

Closes(k) == k \in {"close", "closeNote", "closeOpen"}

RECURSIVE Blocks(_, _)
\* the blocks open after the first n lines, the innermost last
Blocks(kinds, n) ==
    IF n = 0 THEN <<>>
    ELSE (IF Closes(kinds[n])
          THEN SubSeq(Blocks(kinds, n - 1), 1, Len(Blocks(kinds, n - 1)) - 1)
          ELSE Blocks(kinds, n - 1))
         \o Opened(kinds[n])

\* every closing brace closes a block, every block is closed, and an enum
\* holds nothing but values
ScanValid(kinds) ==
    /\ Len(Blocks(kinds, Len(kinds))) = 0
    /\ \A n \in 1..Len(kinds) :
           /\ Closes(kinds[n]) => Len(Blocks(kinds, n - 1)) > 0
           /\ (/\ Len(Blocks(kinds, n - 1)) > 0
               /\ Blocks(kinds, n - 1)[Len(Blocks(kinds, n - 1))].type = "enum")
                  => kinds[n] \in {"value", "field", "close", "closeNote", "closeOpen"}

\* two messages A and B, each with one message holding one field named x
FieldScanLines ==
    {<<"openA", i1, f1, "close", "close", "openB", i2, f2, "close", "close">> :
        i1 \in {"openN", "openM"}, i2 \in {"openN", "openM"},
        f1 \in {"fieldX1", "fieldX2"}, f2 \in {"fieldX1", "fieldX2"}}

ScanInputs ==
    {[kind |-> "scan", target |-> "field", lines |-> l] : l \in FieldScanLines}
    \cup
    {[kind |-> "scan", target |-> "message", lines |-> l] :
        l \in {l \in UNION {[1..n -> MessageScanKinds] : n \in 1..MaxScan} : ScanValid(l)}}
    \cup
    {[kind |-> "scan", target |-> "enum", lines |-> l] :
        l \in {l \in UNION {[1..n -> EnumScanKinds] : n \in 1..MaxScan} : ScanValid(l)}}

ScanInit ==
    /\ input \in ScanInputs
    /\ content = Join([n \in 1..Len(input.lines) |-> ScanLine(input.lines[n])], NL)
    /\ request \in IF input.target = "field"
                   THEN {[kind |-> "fieldName", target |-> <<"x">>, line |-> l] : l \in {2, 7}}
                   ELSE {[kind |-> IF input.target = "message" THEN "containingMessage"
                                     ELSE "containingEnum",
                           target |-> undefined, line |-> l] :
                            l \in 0..(Len(input.lines) - 1)}
    /\ phase = "ready"
    /\ message = NoMessage
    /\ reparsed = NoMessage
    /\ world = NoWorld
    /\ files = <<>>
    /\ index = 0
    /\ answer = NoAnswer
    /\ enumInfo = NoEnum
    /\ facade = NoFacade
    /\ stack = <<>>
    /\ currentDepth = 0

ScanKeeps ==
    UNCHANGED <<facade, enumInfo, input, content, message, reparsed, world, request, files>>

\* one pass of the loop of getContainingMessage, over line index
ScanMessageLine ==
    /\ phase \in {"ready", "scanning"}
    /\ request.kind \in {"containingMessage", "fieldName"}
    /\ request.kind = "fieldName" =>
           fieldRegex(Split(content, "\n")[request.line + 1], request.target)
    /\ index <= request.line
    /\ stack' = PopClosed(PushOpener(stack, CodeLine(Split(content, "\n")[index + 1]),
                                     currentDepth),
                          DepthAfter(CodeLine(Split(content, "\n")[index + 1]), currentDepth))
    /\ currentDepth' = DepthAfter(CodeLine(Split(content, "\n")[index + 1]), currentDepth)
    /\ index' = index + 1
    /\ phase' = "scanning"
    /\ UNCHANGED answer
    /\ ScanKeeps

\* the loop is over: getContainingMessage returns
ContainingMessage ==
    /\ phase = "scanning"
    /\ request.kind = "containingMessage"
    /\ index > request.line
    /\ answer' = ContainingMessageInfo(stack, content)
    /\ phase' = "done"
    /\ UNCHANGED <<stack, currentDepth, index>>
    /\ ScanKeeps

\* what the field-name test of provideHover of src/src/proto3Hover.ts gives
\* once getContainingMessage has returned: the field of that name of the
\* message found, or nothing, the later tests finding nothing for a word
\* that is a field's name on a field line
FieldAnswer(messageInfo, targetWord) ==
    IF messageInfo.kind = "info" /\ FindNamed(messageInfo.info.fields, targetWord) # -1
    THEN [kind |-> "field",
          field |-> messageInfo.info.fields[FindNamed(messageInfo.info.fields, targetWord)]]
    ELSE NoAnswer

\* provideHover with the cursor on a field's name: the field-name test has
\* matched and the loop of getContainingMessage is over
HoverFieldName ==
    /\ phase = "scanning"
    /\ request.kind = "fieldName"
    /\ index > request.line
    /\ answer' = FieldAnswer(ContainingMessageInfo(stack, content), request.target)
    /\ phase' = "done"
    /\ UNCHANGED <<stack, currentDepth, index>>
    /\ ScanKeeps

\* getContainingEnum(document, line)
GetContainingEnum ==
    /\ phase = "ready"
    /\ request.kind = "containingEnum"
    /\ answer' = getContainingEnum(content, request.line)
    /\ phase' = "done"
    /\ UNCHANGED <<stack, currentDepth, index>>
    /\ ScanKeeps

ScanNext == ScanMessageLine \/ ContainingMessage \/ HoverFieldName \/ GetContainingEnum

ScanSpec == ScanInit /\ [][ScanNext]_vars

\* the names of the blocks of a type among the blocks open, outermost first
OpenNames(blocks, type) ==
    [j \in 1..Len(SelectSeq(blocks, LAMBDA b : b.type = type)) |->
        SelectSeq(blocks, LAMBDA b : b.type = type)[j].name]

\* the depths recorded on the stack grow from bottom to top and stay below
\* the depth reached
StackOrdered ==
    /\ \A j \in 1..Len(stack) : stack[j].depth < currentDepth
    /\ \A j, k \in 1..Len(stack) : j < k => stack[j].depth < stack[k].depth

\* the top of the stack is the innermost message open after the lines
\* scanned, and the stack is empty when none is
TopIsInnermost ==
    IF Len(OpenNames(Blocks(input.lines, index), "message")) = 0 THEN Len(stack) = 0
    ELSE /\ Len(stack) > 0
         /\ stack[Len(stack)].name
                = OpenNames(Blocks(input.lines, index), "message")
                      [Len(OpenNames(Blocks(input.lines, index), "message"))]

\* C25: after each line scanned by getContainingMessage the depths on the
\* stack are strictly increasing from bottom to top and each is below the
\* brace depth reached, braces in // comments not counted; and on these
\* brace-balanced documents with at most one opener to a line the top of
\* the stack is the innermost message containing the line, the stack
\* empty when there is none.
C25_StackOfOpenMessages ==
    (request.kind = "containingMessage" /\ phase = "scanning") =>
        /\ StackOrdered
        /\ TopIsInnermost

\* C26: the entry that a depth-0 `message X {` line of Foo's body adds to
\* nestedMessages carries the fields of that very block, the direct child,
\* also when a block of the same name lies deeper inside an earlier
\* sibling.
C26_EntryIsTheDirectChild ==
    (phase = "parsed" /\ Balanced(content)) =>
        \A j \in 1..Len(message.nestedMessages) :
            j <= Len(ExpectedNested(input.items)) =>
                message.nestedMessages[j].fields = ExpectedNested(input.items)[j].fields

\* the field a field line of a kind declares
ScanField(k) ==
    IF k = "fieldX1" THEN [type |-> tyInt32, number |-> 1]
    ELSE [type |-> tyString, number |-> 2]

\* C27: hovering a field's name on its field line returns the field parsed
\* from the message block that holds the cursor line, also when a message
\* of the same simple name inside another message comes earlier in the
\* document.
C27_FieldOfTheContainingBlock ==
    (request.kind = "fieldName" /\ phase = "done") =>
        /\ answer.kind = "field"
        /\ answer.field.name = request.target
        /\ answer.field.type = ScanField(input.lines[request.line + 1]).type
        /\ answer.field.number = ScanField(input.lines[request.line + 1]).number

\* C28: a brace that stands only in a // comment, a comment line of its own
\* or the trailing comment of a field, leaves the closing brace found for
\* Foo and the depth counted over its body as they are: every depth-0
\* field line of the body is parsed, those after such a comment included.
C28_BraceInCommentNotCounted ==
    phase # "ready" =>
        \A k \in 1..Len(input.items) :
            IsFieldItem(input.items[k]) =>
                \E j \in 1..Len(message.fields) :
                    /\ message.fields[j].name = ItemOf(input.items[k]).name
                    /\ message.fields[j].number = ItemOf(input.items[k]).number

\* whether the innermost block open after line n, counted from 0, is an enum
InEnumBlock(kinds, n) ==
    /\ Len(Blocks(kinds, n + 1)) > 0
    /\ Blocks(kinds, n + 1)[Len(Blocks(kinds, n + 1))].type = "enum"

\* C29: getContainingEnum(document, L) returns the EnumInfo of the enum that
\* holds line L when L lies in an enum block, from its opener line to the
\* line before its closing brace, and undefined for every line outside an
\* enum: after an enum closed by a brace that shares its line with a
\* comment, and after an enum opened and closed on one line.
C29_EnumOnlyInsideItsBlock ==
    (request.kind = "containingEnum" /\ phase = "done"
     /\ input.lines[request.line + 1] # "inlineF") =>
        IF InEnumBlock(input.lines, request.line)
        THEN /\ answer.kind = "info"
             /\ answer.info.name = Blocks(input.lines, request.line + 1)
                                       [Len(Blocks(input.lines, request.line + 1))].name
        ELSE answer = NoAnswer

\* C30: the location definition lookup returns for a.b.M.N or M.N is a
\* declaration of N whose directly enclosing block is the M matched, never
\* an N deeper inside M or outside M's block; and a file in which a
\* segment matches nowhere yields nothing while the files after it are
\* still tried, so that a later file with N directly inside M answers.
C30_DirectChildOfTheMatchedBlock ==
    (phase = "done" /\ request.target \in {tgQualified, tgRelative}) =>
        /\ answer.kind = "location" =>
               /\ TextOfFile(world, answer.file) \in NestedTexts
               /\ answer.range = DeclaredRange(TextOfFile(world, answer.file), nmN)
        /\ ( /\ \A k \in 1..Len(files) :
                    /\ CanRead(world, files[k])
                    /\ TextOfFile(world, files[k]) # "nestedLine"
              /\ \E j \in 1..Len(files) : TextOfFile(world, files[j]) = "nestedBlock" )
                => answer.kind = "location"

=============================================================================
